---- MODULE Spec2Model ----
(***************************************************************************)
(* Judging worker of ana-online-judge: the per-job pipeline of the         *)
(* standard judge (judge/src/judger.rs), the executer facade and the meta  *)
(* parser it rests on (judge/src/engine), the comparator runner            *)
(* (judge/src/components/checker.rs), the orchestrator's result handling   *)
(* (judge/src/main.rs) and the Redis manager (judge/src/redis_manager.rs). *)
(*                                                                         *)
(* Option<T> is modelled as a set: None is {} and Some(v) is {v}.          *)
(* Strings that are compared character by character are sequences of       *)
(* one-character strings.                                                  *)
(***************************************************************************)
EXTENDS Integers, Sequences, FiniteSets, TLC

VARIABLES
    \* ---- judge pipeline (process_judge_job and the orchestrator arm) ----
    pc,                 \* position of the worker inside the main loop
    job,                \* the job being processed
    checker_binary,     \* Option<PathBuf>: {} or {"checker"}
    testcase_results,   \* Vec<TestcaseResult>
    overall_verdict,
    max_time,
    max_memory,
    tc,                 \* locals of the current loop iteration
    result,             \* Option: what process_judge_job returned with Ok
    error,              \* Option: the message process_judge_job returned with Err
    stored,             \* Option: the JudgeResult handed to store_judge_result
    downloads,          \* history: testcase indices whose artefacts were fetched
    executions,         \* history: testcase indices a box was initialised for
    checker_runs,       \* history: <<testcase index, comparator exit code>>
    submitted_code,     \* anigma: canonical source text of the submission
    run_a,              \* anigma task 1: Option, the outcome of program A
    run_b,              \* anigma task 1: Option, the outcome of program B
    compared,           \* anigma: per testcase run, its status and whether
                        \* its stdout compares equal to the expected output
    build,              \* box ids: "release" or "debug" (overflow checks on)
    worker_id,          \* box ids: SandboxConfig.worker_id
    BOX_ID_COUNTER,     \* box ids: the AtomicU32 of executer.rs
    box_id_counter,     \* box ids: the counter of main.rs
    allocated,          \* box ids: the ids handed out by the last operation
    allocations,        \* box ids: number of operations so far
    redis_keys,         \* store: the result keys Redis holds, key -> value
    store_call,         \* store: Option, the store operation last called
    store_ops,          \* store: the Redis commands it issued, in order
    store_ret,          \* store: Option, what it returned: "Ok" or "Err"
    lease,              \* workers: remaining life of each lease key, 0 = absent
    proc,               \* workers: each process's position and worker index
    hb_due,             \* workers: whose heartbeat sleep has elapsed
    exec,               \* workers: each process's sandboxed operation
    counters,           \* workers: each process's two box id counters
    boxes,              \* workers: the boxes that exist on the host
    box_ops,            \* workers: <<process, box id>> of every init or cleanup
    queue,              \* loop: the entries of the Redis list judge:queue
    enqueued,           \* loop: number of entries pushed so far
    loop_pc,            \* loop: position of the worker in its main loop
    current,            \* loop: Option, the entry whose job is in progress
    pending,            \* loop: Option, the result about to be stored
    phase,              \* loop: history, the last event of each entry
    key_writes,         \* loop: history, successful SETEX count per result key
    last_iteration,     \* loop: history, Option: the iteration just completed
    cache_source,       \* cache: Option, the text of checker.cpp
    cache_binary,       \* cache: Option, the file at the binary path
    call,               \* cache: each worker's call of get_or_compile
    compiler_runs,      \* cache: history, number of g++ invocations
    cmp_s,              \* compare: the string s handed to compare_output
    cmp_out,            \* compare: Option, what compare_output returned
    validate_pc,        \* validate: where process_validate_job stands
    validate_job,       \* validate: the ValidateJob
    validation_results, \* validate: the local testcase_results
    all_valid,          \* validate: the local all_valid
    validate_ret,       \* validate: Option, what process_validate_job returned
    meta_lines,         \* meta: the lines of the meta file of one run
    meta_memory_mb,     \* meta: limits.memory_mb of the run
    meta_out,           \* meta: Option, the parsed meta and the status returned
    main_pc,            \* startup: where main stands
    USE_CGROUPS,        \* startup: the OnceLock<bool> of isolate_box.rs
    host_cgroups,       \* startup: whether `isolate --cg --init` works now
    probe_count,        \* startup: history, number of probes of box 99
    dequeued,           \* startup: history, number of jobs taken by BLPOP
    executed,           \* startup: history, number of execute_sandboxed calls
    cgroup_bails,       \* startup: history, calls that bailed for cgroups
    pg_pc,              \* playground: where process_playground_job stands
    pg_files,           \* playground: the paths of job.files, in order
    pg_written,         \* playground: history, the locations written so far
    lim_pc,             \* limits: where the computation of the limits stands
    lim_build,          \* limits: "debug" (overflow checks) or "release"
    lim_job,            \* limits: the limits and the flags of the job
    lim_config,         \* limits: the pairs of the language descriptor
    lim_out,            \* limits: the ExecutionLimits given to the run
    bx_pc,              \* reuse: where the worker's execute_sandboxed stands
    bx_worker,          \* reuse: the worker index of the process
    bx_counter,         \* reuse: BOX_ID_COUNTER of engine/executer.rs
    bx_id,              \* reuse: the box id of the execution under way
    bx_boxes,           \* reuse: the ids whose box is initialised and not cleaned up
    bx_reclaimed,       \* reuse: history, ids whose box IsolateBox::new removed
    bx_runs,            \* reuse: number of executions started in this behaviour
    pj_pc,              \* pop_job: where the call stands
    pj_up,              \* pop_job: whether Redis is reachable
    pj_conn,            \* pop_job: whether self.conn is a working connection
    pj_queue,           \* pop_job: the entries of judge:queue, head first
    pj_pushed,          \* pop_job: history, every entry pushed so far
    pj_ret,             \* pop_job: what the call returned
    pj_failures,        \* pop_job: history, number of failed BLPOPs
    pj_discarded,       \* pop_job: history, number of entries that did not parse
    pj_outages,         \* pop_job: number of times Redis went away
    cp_actual,          \* compare pairs: the first argument of compare_output
    cp_expected,        \* compare pairs: its second argument
    cp_out,             \* compare pairs: the results of the two calls
    mq_queue,           \* consumers: the entries of judge:queue, head first
    mq_pushed,          \* consumers: number of entries pushed so far
    mq_worker,          \* consumers: where each worker's main loop stands, and its job
    mq_delivered,       \* consumers: history, the workers each entry was returned to
    mq_processed,       \* consumers: history, times each entry was processed
    mq_stored,          \* consumers: history, results stored for each entry
    mq_dropped          \* consumers: history, entries held by a worker that stopped

judgeVars == <<pc, job, checker_binary, testcase_results, overall_verdict,
               max_time, max_memory, tc, result, error, stored,
               downloads, executions, checker_runs, submitted_code, run_a, run_b, compared>>

boxIdVars == <<build, worker_id, BOX_ID_COUNTER, box_id_counter,
               allocated, allocations>>

storeVars == <<redis_keys, store_call, store_ops, store_ret>>

workerVars == <<lease, proc, hb_due, exec, counters, boxes, box_ops>>

loopVars == <<queue, enqueued, loop_pc, current, pending,
              phase, key_writes, last_iteration>>

cacheVars == <<cache_source, cache_binary, call, compiler_runs>>

compareVars == <<cmp_s, cmp_out>>

validateVars == <<validate_pc, validate_job, validation_results, all_valid,
                  validate_ret>>

metaVars == <<meta_lines, meta_memory_mb, meta_out>>

startupVars == <<main_pc, USE_CGROUPS, host_cgroups, probe_count, dequeued,
                 executed, cgroup_bails>>

playgroundVars == <<pg_pc, pg_files, pg_written>>

limitVars == <<lim_pc, lim_build, lim_job, lim_config, lim_out>>

reuseVars == <<bx_pc, bx_worker, bx_counter, bx_id, bx_boxes, bx_reclaimed, bx_runs>>

popJobVars == <<pj_pc, pj_up, pj_conn, pj_queue, pj_pushed, pj_ret, pj_failures, pj_discarded, pj_outages>>

comparePairsVars == <<cp_actual, cp_expected, cp_out>>

consumersVars == <<mq_queue, mq_pushed, mq_worker, mq_delivered, mq_processed, mq_stored, mq_dropped>>

lateVars == <<playgroundVars, limitVars, reuseVars, popJobVars, comparePairsVars, consumersVars>>

moreVars == <<validateVars, metaVars, startupVars, lateVars>>

(* the parts added to the four above *)
partVars == <<loopVars, cacheVars, compareVars, moreVars>>

vars == <<judgeVars, boxIdVars, storeVars, workerVars, partVars>>

(* what the judge pipeline leaves alone *)
notJudgeVars == <<boxIdVars, storeVars, workerVars, partVars>>

----------------------------------------------------------------------------
(* Bounds of the model *)

MaxTestcases == 3

----------------------------------------------------------------------------
(* Option *)

None == {}
Some(v) == {v}
IsSome(o) == o # {}
Unwrap(o) == CHOOSE v \in o : TRUE

(* Verdict::to_string, judge/src/core/verdict.rs *)
Verdicts ==
    {"accepted", "wrong_answer", "time_limit_exceeded", "memory_limit_exceeded",
     "runtime_error", "system_error", "compile_error", "skipped",
     "presentation_error", "fail"}

Max(a, b) == IF a >= b THEN a ELSE b

----------------------------------------------------------------------------
(* Isolate meta file parser: engine/sandbox/meta.rs *)

IsolateOk == [tag |-> "Ok", sig |-> 0]
IsolateSignal(s) == [tag |-> "Signal", sig |-> s]

(* IsolateMeta::default *)
DefaultMeta ==
    [time_ms |-> 0, memory_kb |-> 0, exit_code |-> 0,
     status |-> IsolateOk, wall_time_ms |-> 0]

(* One line of the meta file, already split at the first ':'.  Numeric   *)
(* values are given parsed; time values are given in milliseconds.       *)
MetaLine(k, v) == [key |-> k, value |-> v, parses |-> TRUE]

(* a line whose value is not a number: value.parse() gives Err *)
UnparsedLine(k) == [key |-> k, value |-> 0, parses |-> FALSE]

(* The body of the `for line in content.lines()` loop for one line. *)
ParseMetaLine(acc, line) ==
    LET m == acc.meta IN
    CASE line.key = "time" ->
            IF line.parses
            THEN [acc EXCEPT !.meta = [m EXCEPT !.time_ms = line.value]]
            ELSE acc
      [] line.key = "time-wall" ->
            IF line.parses
            THEN [acc EXCEPT !.meta = [m EXCEPT !.wall_time_ms = line.value]]
            ELSE acc
      [] line.key \in {"cg-mem", "max-rss"} ->
            IF line.parses /\ (m.memory_kb = 0 \/ line.value > m.memory_kb)
            THEN [acc EXCEPT !.meta = [m EXCEPT !.memory_kb = line.value]]
            ELSE acc
      [] line.key = "status" ->
            [acc EXCEPT !.status_str = line.value]
      [] line.key = "exitcode" ->
            [acc EXCEPT !.meta = [m EXCEPT !.exit_code =
                                     IF line.parses THEN line.value ELSE 0]]
      [] line.key = "exitsig" ->
            IF line.parses
            THEN [acc EXCEPT !.meta = [m EXCEPT !.status = IsolateSignal(line.value)]]
            ELSE acc
      [] OTHER -> acc

RECURSIVE ParseMetaLines(_, _)
ParseMetaLines(acc, lines) ==
    IF lines = <<>> THEN acc
    ELSE ParseMetaLines(ParseMetaLine(acc, Head(lines)), Tail(lines))

(* a derivation that would look at the exit code only *)
StatusFromString_ExitOnly(status_str, exit_code) ==
    IF exit_code = 0 THEN IsolateOk ELSE [tag |-> "RuntimeError", sig |-> 0]

(* a derivation that would take an absent status for a normal exit *)
StatusFromString_EmptyIsOk(status_str, exit_code) ==
    CASE status_str = "TO" -> [tag |-> "TimeOut", sig |-> 0]
      [] status_str = "SG" -> IsolateSignal(0)
      [] status_str = "RE" -> [tag |-> "RuntimeError", sig |-> 0]
      [] status_str = "XX" -> [tag |-> "InternalError", sig |-> 0]
      [] status_str = "" -> IsolateOk
      [] OTHER -> [tag |-> "RuntimeError", sig |-> 0]

(* The status derived from the status string once every line is read. *)
StatusFromString(status_str, exit_code) ==
    CASE status_str = "TO" -> [tag |-> "TimeOut", sig |-> 0]
      [] status_str = "SG" -> IsolateSignal(0)
      [] status_str = "RE" -> [tag |-> "RuntimeError", sig |-> 0]
      [] status_str = "XX" -> [tag |-> "InternalError", sig |-> 0]
      [] status_str = "" /\ exit_code = 0 -> IsolateOk
      [] OTHER -> [tag |-> "RuntimeError", sig |-> 0]

(* a parser that would let the status string override exitsig *)
ParseMeta_StatusFirst(lines) ==
    LET acc == ParseMetaLines([meta |-> DefaultMeta, status_str |-> ""], lines)
        m == acc.meta
    IN  IF m.status = IsolateOk \/ acc.status_str # ""
        THEN [m EXCEPT !.status = StatusFromString(acc.status_str, m.exit_code)]
        ELSE m

ParseMeta(lines) ==
    LET acc == ParseMetaLines([meta |-> DefaultMeta, status_str |-> ""], lines)
        m == acc.meta
    IN  IF m.status = IsolateOk
        THEN [m EXCEPT !.status = StatusFromString(acc.status_str, m.exit_code)]
        ELSE m

----------------------------------------------------------------------------
(* Executer facade: engine/executer.rs *)

Exited(c) == [tag |-> "Exited", code |-> c]
Signaled(s) == [tag |-> "Signaled", code |-> s]
StatusTag(t) == [tag |-> t, code |-> 0]

(* a conversion without the second memory check *)
ConvertStatus_FirstMatchOnly(meta, memory_mb) ==
    CASE meta.status.tag = "Ok" /\ meta.exit_code = 0 ->
            IF meta.memory_kb > memory_mb * 1024
            THEN StatusTag("MemoryLimitExceeded")
            ELSE Exited(0)
      [] meta.status.tag = "Ok" -> Exited(meta.exit_code)
      [] meta.status.tag = "TimeOut" -> StatusTag("TimeLimitExceeded")
      [] meta.status.tag = "Signal" -> Signaled(meta.status.sig)
      [] meta.status.tag = "RuntimeError" -> StatusTag("RuntimeError")
      [] OTHER -> StatusTag("SystemError")

(* execute_sandboxed, "Convert IsolateStatus to ExecutionStatus" and the  *)
(* second memory check that follows it.                                   *)
ConvertStatus(meta, memory_mb) ==
    LET memory_limit_kb == memory_mb * 1024
        first ==
            CASE meta.status.tag = "Ok" /\ meta.exit_code = 0 ->
                    IF meta.memory_kb > memory_limit_kb
                    THEN StatusTag("MemoryLimitExceeded")
                    ELSE Exited(0)
              [] meta.status.tag = "Ok" -> Exited(meta.exit_code)
              [] meta.status.tag = "TimeOut" -> StatusTag("TimeLimitExceeded")
              [] meta.status.tag = "Signal" -> Signaled(meta.status.sig)
              [] meta.status.tag = "RuntimeError" -> StatusTag("RuntimeError")
              [] OTHER -> StatusTag("SystemError")
    IN  IF meta.memory_kb > memory_limit_kb /\ first.tag # "MemoryLimitExceeded"
        THEN StatusTag("MemoryLimitExceeded")
        ELSE first

(* ExecutionOutcome built by execute_sandboxed from the parsed meta. *)
ExecutionOutcome(lines, memory_mb, out) ==
    LET meta == ParseMeta(lines) IN
    [status |-> ConvertStatus(meta, memory_mb),
     time_ms |-> meta.time_ms,
     memory_kb |-> meta.memory_kb,
     stdout |-> out,
     stdout_bytes |-> out]

(* ExecutionOutcome::is_success *)
IsSuccess(outcome) == outcome.status = Exited(0)

(* ExecutionOutcome::exit_code *)
ExitCode(outcome) ==
    IF outcome.status.tag = "Exited" THEN outcome.status.code ELSE -1

----------------------------------------------------------------------------
(* What the isolator leaves in the meta file for one process.  The shapes  *)
(* are those of the parser's tests in meta.rs: a normal                    *)
(* exit writes exitcode, a time-out status TO, a signal exitsig and status *)
(* SG, an internal error status XX.  A non-zero exit writes its exitcode;  *)
(* the status RE line may or may not accompany it (run.re_line).           *)
IsolateMetaLines(run) ==
    <<MetaLine("time", run.time_ms), MetaLine("cg-mem", run.memory_kb)>> \o
    (CASE run.kind = "exit" /\ run.code = 0 -> <<MetaLine("exitcode", 0)>>
       [] run.kind = "exit" /\ run.re_line ->
            <<MetaLine("exitcode", run.code), MetaLine("status", "RE")>>
       [] run.kind = "exit" -> <<MetaLine("exitcode", run.code)>>
       [] run.kind = "signal" ->
            <<MetaLine("exitsig", run.code), MetaLine("status", "SG")>>
       [] run.kind = "timeout" -> <<MetaLine("status", "TO")>>
       [] OTHER -> <<MetaLine("status", "XX")>>)

ProcessRun(kind, code, re_line, time_ms, memory_kb) ==
    [kind |-> kind, code |-> code, re_line |-> re_line,
     time_ms |-> time_ms, memory_kb |-> memory_kb]

----------------------------------------------------------------------------
(* compare_output: judger.rs *)

Whitespace == {" ", "\n", "\t", "\r"}

(* str::lines: split at "\n"; a final piece is a line only if non-empty *)
RECURSIVE SplitLines(_, _, _)
SplitLines(s, cur, acc) ==
    IF s = <<>> THEN (IF cur = <<>> THEN acc ELSE Append(acc, cur))
    ELSE IF Head(s) = "\n" THEN SplitLines(Tail(s), <<>>, Append(acc, cur))
    ELSE SplitLines(Tail(s), Append(cur, Head(s)), acc)

(* a line ending in "\r" before the "\n" loses that "\r" as well *)
StripCr(line) ==
    IF line # <<>> /\ line[Len(line)] = "\r"
    THEN SubSeq(line, 1, Len(line) - 1) ELSE line

RECURSIVE MapStripCr(_)
MapStripCr(ls) ==
    IF ls = <<>> THEN <<>> ELSE <<StripCr(Head(ls))>> \o MapStripCr(Tail(ls))

Lines(s) ==
    LET raw == SplitLines(s, <<>>, <<>>)
        ended == s # <<>> /\ s[Len(s)] = "\n"
    IN  \* only a piece that was terminated by "\n" has its "\r" stripped
        IF raw = <<>> THEN raw
        ELSE IF ended THEN MapStripCr(raw)
        ELSE MapStripCr(SubSeq(raw, 1, Len(raw) - 1)) \o <<raw[Len(raw)]>>

(* a trim_end that trims nothing *)
TrimEnd_Nothing(line) == line

(* str::trim_end *)
RECURSIVE TrimEnd(_)
TrimEnd(line) ==
    IF line # <<>> /\ line[Len(line)] \in Whitespace
    THEN TrimEnd(SubSeq(line, 1, Len(line) - 1))
    ELSE line

RECURSIVE MapTrimEnd(_)
MapTrimEnd(ls) ==
    IF ls = <<>> THEN <<>> ELSE <<TrimEnd(Head(ls))>> \o MapTrimEnd(Tail(ls))

(* the closure `normalize` *)
Normalize(s) == MapTrimEnd(Lines(s))

(* a trim_trailing that drops nothing *)
TrimTrailing_Nothing(ls) == ls

(* the closure `trim_trailing` *)
RECURSIVE TrimTrailing(_)
TrimTrailing(ls) ==
    IF ls # <<>> /\ ls[Len(ls)] = <<>>
    THEN TrimTrailing(SubSeq(ls, 1, Len(ls) - 1))
    ELSE ls

CompareOutput(actual, expected) ==
    TrimTrailing(Normalize(actual)) = TrimTrailing(Normalize(expected))

----------------------------------------------------------------------------
(* Comparator runner: components/checker.rs *)

(* exit_code_to_verdict *)
ExitCodeToVerdict(exit_code) ==
    CASE exit_code = 0 -> "accepted"
      [] exit_code = 1 -> "wrong_answer"
      [] exit_code = 2 -> "presentation_error"
      [] exit_code = 3 -> "fail"
      [] exit_code = 4 -> "wrong_answer"
      [] exit_code = 8 -> "wrong_answer"
      [] OTHER -> IF exit_code < 0 \/ exit_code > 127
                  THEN "system_error" ELSE "wrong_answer"

(* run_checker: the limits handed to the executer *)
CheckerMemoryMb == 1024

(* run_checker after the files are staged: execute_sandboxed, then the   *)
(* verdict from the outcome's exit_code().                               *)
RunCheckerVerdict(run) ==
    ExitCodeToVerdict(
        ExitCode(ExecutionOutcome(IsolateMetaLines(run), CheckerMemoryMb, <<>>)))

----------------------------------------------------------------------------
(* Language registry: languages.rs *)

(* get_language_config over a table of two descriptors: a compiled        *)
(* language without limit pairs and an interpreted one with the pairs of  *)
(* the comments of LanguageConfig, (3, 2) and (2, 32).                    *)
GetLanguageConfig(language) ==
    CASE language = "cpp" ->
            Some([compile_command |-> Some("g++"),
                  time_limit |-> None, memory_limit |-> None])
      [] language = "python" ->
            Some([compile_command |-> None,
                  time_limit |-> Some(<<3, 2>>), memory_limit |-> Some(<<2, 32>>)])
      [] OTHER -> None

(* LanguageConfig::calculate_time_limit *)
CalculateTimeLimit(cfg, base_time_ms) ==
    IF IsSome(cfg.time_limit)
    THEN base_time_ms * Unwrap(cfg.time_limit)[1] + Unwrap(cfg.time_limit)[2] * 1000
    ELSE base_time_ms

(* LanguageConfig::calculate_memory_limit *)
CalculateMemoryLimit(cfg, base_memory_mb) ==
    IF IsSome(cfg.memory_limit)
    THEN base_memory_mb * Unwrap(cfg.memory_limit)[1] + Unwrap(cfg.memory_limit)[2]
    ELSE base_memory_mb

----------------------------------------------------------------------------
(* Jobs the queue may hold *)

(* the id of the i-th testcase of a job: ids are not their positions *)
TestcaseId(i) == 100 - 7 * i

TestcaseSeq(n) == [i \in 1..n |-> TestcaseId(i)]

JudgeJobs ==
    { [kind |-> "judge",
       submission_id |-> 1,
       language |-> l,
       time_limit |-> 1000,
       ignore_time_limit_bonus |-> ib,
       memory_limit |-> 256,
       ignore_memory_limit_bonus |-> ib,
       testcases |-> TestcaseSeq(n),
       problem_type |-> pt,
       checker_path |-> cp] :
        l \in {"cpp", "python", "cobol"},
        ib \in BOOLEAN,
        n \in 0..MaxTestcases,
        pt \in {"icpc", "special_judge"},
        cp \in {None, Some("checker.cpp")} }

(* AnigmaJudgeJob *)
AnigmaJobs ==
    { [kind |-> "anigma",
       submission_id |-> 2,
       reference_code_path |-> rp,
       time_limit |-> 1000,
       memory_limit |-> 256,
       max_score |-> 70,
       testcases |-> TestcaseSeq(n)] :
        rp \in {"", "ref.zip", "ref.txt"},
        n \in 0..MaxTestcases }

(* AnigmaTask1JudgeJob *)
Task1Jobs ==
    { [kind |-> "anigma_task1",
       submission_id |-> 3,
       time_limit |-> 1000,
       memory_limit |-> 256,
       testcases |-> <<>>] }

Jobs == JudgeJobs \cup AnigmaJobs \cup Task1Jobs

(* canonical source texts an archive may hold *)
SourceTexts == { <<>>, <<"x", "\n">>, <<"x", "y", "\n">> }

(* expected outputs of an anigma testcase: text, or bytes that are not text *)
AnigmaExpected ==
    { [utf8 |-> TRUE, bytes |-> <<"a", "\n">>],
      [utf8 |-> FALSE, bytes |-> <<"a", "#FF">>] }

(* what `make build` may do in the box *)
BuildRuns ==
    { ProcessRun("exit", 0, FALSE, 10, 1024),
      ProcessRun("exit", 2, TRUE, 10, 1024),
      ProcessRun("timeout", 0, FALSE, 20, 1024) }

(* what a user program may do in the box *)
UserRuns ==
    { ProcessRun("exit", 0, FALSE, t, m) : t \in {10, 20}, m \in {1024, 300000} }
    \cup { ProcessRun("exit", 1, re, 10, 1024) : re \in BOOLEAN }
    \cup { ProcessRun("signal", 11, FALSE, 10, 1024),
           ProcessRun("timeout", 0, FALSE, 20, 1024),
           ProcessRun("internal", 0, FALSE, 10, 1024) }

(* what a comparator may do in the box *)
CheckerExitCodes == {0, 1, 2, 3, 4, 5, 8, 127, 128, 255}

CheckerRuns ==
    { ProcessRun("exit", c, re, 10, 1024) :
        c \in CheckerExitCodes, re \in BOOLEAN }

(* what a user program may print, and the expected output of a testcase *)
UserOutputs == { <<"a", "\n">>, <<"a", " ", "\n", "\n">>, <<"b", "\n">> }
ExpectedOutput == <<"a", "\n">>

----------------------------------------------------------------------------
(* process_judge_job: judger.rs *)

NoTc == [idx |-> 0, run_result |-> None]

InitJudge ==
    /\ pc = "pop"
    /\ job = None
    /\ checker_binary = None
    /\ testcase_results = <<>>
    /\ overall_verdict = "accepted"
    /\ max_time = 0
    /\ max_memory = 0
    /\ tc = NoTc
    /\ result = None
    /\ error = None
    /\ stored = None
    /\ downloads = <<>>
    /\ executions = <<>>
    /\ checker_runs = <<>>
    /\ submitted_code = <<>>
    /\ run_a = None
    /\ run_b = None
    /\ compared = <<>>

TheJob == Unwrap(job)
LangConfig == Unwrap(GetLanguageConfig(TheJob.language))
NumTestcases == Len(TheJob.testcases)

(* JudgeResult literal of the early returns *)
EarlyResult(verdict, message) ==
    [submission_id |-> TheJob.submission_id,
     verdict |-> verdict,
     execution_time |-> None,
     memory_used |-> None,
     testcase_results |-> <<>>,
     error_message |-> Some(message)]

(* main loop: a job is taken from the queue and its arm entered *)
PopJob ==
    /\ pc = "pop"
    /\ \E j \in Jobs :
         /\ job' = Some(j)
         /\ pc' = CASE j.kind = "judge" -> "language"
                    [] j.kind = "anigma" -> "a_extract"
                    [] OTHER -> "t1_input"
    /\ checker_binary' = None
    /\ testcase_results' = <<>>
    /\ overall_verdict' = "accepted"
    /\ max_time' = 0
    /\ max_memory' = 0
    /\ tc' = NoTc
    /\ result' = None
    /\ error' = None
    /\ stored' = None
    /\ downloads' = <<>>
    /\ executions' = <<>>
    /\ checker_runs' = <<>>
    /\ submitted_code' = <<>>
    /\ run_a' = None
    /\ run_b' = None
    /\ compared' = <<>>
    /\ UNCHANGED notJudgeVars

(* get_language_config(..).ok_or_else(..)? and the source file write *)
ResolveLanguage ==
    /\ pc = "language"
    /\ IF GetLanguageConfig(TheJob.language) = None
       THEN /\ error' = Some("Unsupported language")
            /\ pc' = "err"
       ELSE \/ /\ pc' = "compile"
               /\ UNCHANGED error
            \/ /\ error' = Some("io")      \* tempdir or fs::write failed
               /\ pc' = "err"
    /\ UNCHANGED <<job, checker_binary, testcase_results, overall_verdict,
                   max_time, max_memory, tc, result, stored,
                   downloads, executions, checker_runs, submitted_code, run_a, run_b, compared>>
    /\ UNCHANGED notJudgeVars

(* a compile step run for every language *)
HasCompileCommand_Always(lang_config) == TRUE

(* `if let Some(compile_cmd) = &lang_config.compile_command` *)
HasCompileCommand(lang_config) == lang_config.compile_command # None

(* "Compile if needed" *)
Compile ==
    /\ pc = "compile"
    /\ IF ~HasCompileCommand(LangConfig)
       THEN /\ pc' = "checker"
            /\ UNCHANGED <<result, error>>
       ELSE \/ /\ pc' = "checker"                   \* compile_result.success
               /\ UNCHANGED <<result, error>>
            \/ /\ result' = Some(EarlyResult("compile_error", "compiler message"))
               /\ pc' = "ok"
               /\ UNCHANGED error
            \/ /\ error' = Some("compile_in_sandbox") \* compile_in_sandbox(..).await?
               /\ pc' = "err"
               /\ UNCHANGED result
    /\ UNCHANGED <<job, checker_binary, testcase_results, overall_verdict,
                   max_time, max_memory, tc, stored,
                   downloads, executions, checker_runs, submitted_code, run_a, run_b, compared>>
    /\ UNCHANGED notJudgeVars

LoopHead(done) == IF done < NumTestcases THEN "tc_download" ELSE "finalise"

(* "Get checker path if this is a special judge problem" *)
GetChecker ==
    /\ pc = "checker"
    /\ IF TheJob.problem_type = "special_judge"
       THEN IF IsSome(TheJob.checker_path)
            THEN \/ /\ checker_binary' = Some("checker")
                    /\ pc' = LoopHead(0)
                    /\ UNCHANGED result
                 \/ /\ result' = Some(EarlyResult("system_error",
                                                  "Failed to compile checker"))
                    /\ pc' = "ok"
                    /\ UNCHANGED checker_binary
            ELSE /\ result' = Some(EarlyResult("system_error",
                                    "Special judge problem requires a checker"))
                 /\ pc' = "ok"
                 /\ UNCHANGED checker_binary
       ELSE /\ checker_binary' = None
            /\ pc' = LoopHead(0)
            /\ UNCHANGED result
    /\ UNCHANGED <<job, testcase_results, overall_verdict, max_time, max_memory,
                   tc, error, stored, downloads, executions, checker_runs, submitted_code, run_a, run_b, compared>>
    /\ UNCHANGED notJudgeVars

(* loop body, first part: the two download_string(..)? calls *)
DownloadTestcase ==
    /\ pc = "tc_download"
    /\ LET idx == Len(testcase_results) + 1 IN
       /\ downloads' = Append(downloads, idx)
       /\ \/ /\ tc' = [idx |-> idx, run_result |-> None]
             /\ pc' = "tc_execute"
             /\ UNCHANGED error
          \/ /\ error' = Some("Failed to download testcase")
             /\ pc' = "err"
             /\ UNCHANGED tc
    /\ UNCHANGED <<job, checker_binary, testcase_results, overall_verdict,
                   max_time, max_memory, result, stored, executions, checker_runs, submitted_code, run_a, run_b, compared>>
    /\ UNCHANGED notJudgeVars

(* the limits of the run *)
AdjustedTimeLimit ==
    IF TheJob.ignore_time_limit_bonus THEN TheJob.time_limit
    ELSE CalculateTimeLimit(LangConfig, TheJob.time_limit)

AdjustedMemoryLimit ==
    IF TheJob.ignore_memory_limit_bonus THEN TheJob.memory_limit
    ELSE CalculateMemoryLimit(LangConfig, TheJob.memory_limit)

(* loop body, second part: execute_sandboxed(&spec).await? *)
ExecuteTestcase ==
    /\ pc = "tc_execute"
    /\ executions' = Append(executions, tc.idx)
    /\ \/ \E run \in UserRuns, out \in UserOutputs :
            /\ tc' = [tc EXCEPT !.run_result =
                        Some(ExecutionOutcome(IsolateMetaLines(run),
                                              AdjustedMemoryLimit, out))]
            /\ pc' = "tc_verdict"
            /\ UNCHANGED error
       \/ /\ error' = Some("execute_sandboxed")
          /\ pc' = "err"
          /\ UNCHANGED tc
    /\ UNCHANGED <<job, checker_binary, testcase_results, overall_verdict,
                   max_time, max_memory, result, stored, downloads, checker_runs, submitted_code, run_a, run_b, compared>>
    /\ UNCHANGED notJudgeVars

(* a match that would call every failed run a runtime error *)
StatusVerdict_AllRuntime(status) == "runtime_error"

(* the arms of `match run_result.status` other than Exited(0) *)
StatusVerdict(status) ==
    CASE status.tag = "Exited" -> "runtime_error"
      [] status.tag = "TimeLimitExceeded" -> "time_limit_exceeded"
      [] status.tag = "MemoryLimitExceeded" -> "memory_limit_exceeded"
      [] status.tag = "Signaled" -> "runtime_error"
      [] status.tag = "RuntimeError" -> "runtime_error"
      [] OTHER -> "system_error"

(* "ICPC: simple string comparison" *)
IcpcVerdict(stdout, expected) ==
    IF CompareOutput(stdout, expected) THEN "accepted" ELSE "wrong_answer"

(* TestcaseResult pushed for a testcase that ran *)
RanEntry(id, verdict, run_result) ==
    [testcase_id |-> id,
     verdict |-> verdict,
     execution_time |-> Some(run_result.time_ms),
     memory_used |-> Some(run_result.memory_kb)]

(* a loop that never records the first failure as the overall verdict *)
NextOverall_Unrecorded(verdict, overall) == overall

(* a loop that never breaks *)
BreaksLoop_Never(verdict, overall) == FALSE

(* `if verdict != Verdict::Accepted && overall_verdict == Verdict::Accepted` *)
FirstFailure(verdict, overall) == verdict # "accepted" /\ overall = "accepted"

(* the assignment to overall_verdict inside that `if` *)
NextOverall(verdict, overall) ==
    IF FirstFailure(verdict, overall) THEN verdict ELSE overall

(* the `break` inside that `if` *)
BreaksLoop(verdict, overall) == FirstFailure(verdict, overall)

(* the end of the loop body once the verdict is known *)
RecordVerdict(verdict) ==
    LET rr == Unwrap(tc.run_result) IN
    /\ max_time' = Max(max_time, rr.time_ms)
    /\ max_memory' = Max(max_memory, rr.memory_kb)
    /\ testcase_results' =
         Append(testcase_results, RanEntry(TheJob.testcases[tc.idx], verdict, rr))
    /\ overall_verdict' = NextOverall(verdict, overall_verdict)
    /\ pc' = IF BreaksLoop(verdict, overall_verdict)
             THEN "finalise" ELSE LoopHead(tc.idx)
    /\ tc' = NoTc
    /\ UNCHANGED error

(* loop body, third part: the verdict of the testcase *)
JudgeTestcase ==
    /\ pc = "tc_verdict"
    /\ LET rr == Unwrap(tc.run_result) IN
       IF rr.status = Exited(0)
       THEN IF IsSome(checker_binary)
            THEN \/ \E run \in CheckerRuns :          \* run_checker returned Ok
                      /\ RecordVerdict(RunCheckerVerdict(run))
                      /\ checker_runs' = Append(checker_runs, <<tc.idx, run.code>>)
                 \/ /\ RecordVerdict("system_error")  \* run_checker returned Err
                    /\ UNCHANGED checker_runs
                 \/ /\ error' = Some("io")            \* tempdir()? or fs::write(..)?
                    /\ pc' = "err"
                    /\ UNCHANGED <<max_time, max_memory, testcase_results,
                                   overall_verdict, tc, checker_runs>>
            ELSE /\ RecordVerdict(IcpcVerdict(rr.stdout, ExpectedOutput))
                 /\ UNCHANGED checker_runs
       ELSE /\ RecordVerdict(StatusVerdict(rr.status))
            /\ UNCHANGED checker_runs
    /\ UNCHANGED <<job, checker_binary, result, stored, downloads, executions,
                   submitted_code, run_a, run_b, compared>>
    /\ UNCHANGED notJudgeVars

(* a result whose skipped entries are not filled in *)
FillSkipped_Omitted(results, testcases) == results

(* metrics reported whatever the verdict *)
OverallMetric_Always(overall, max) == Some(max)

(* TestcaseResult pushed for a testcase that did not run *)
SkippedEntry(id) ==
    [testcase_id |-> id,
     verdict |-> "skipped",
     execution_time |-> None,
     memory_used |-> None]

(* "Mark remaining testcases as skipped if early termination" *)
FillSkipped(results, testcases) ==
    results \o [i \in 1..(Len(testcases) - Len(results)) |->
                    SkippedEntry(testcases[Len(results) + i])]

(* execution_time and memory_used of the result *)
OverallMetric(overall, max) ==
    IF overall = "accepted" THEN Some(max) ELSE None

(* what follows the loop: skipped entries, the two metrics, Ok(JudgeResult) *)
Finalise ==
    /\ pc = "finalise"
    /\ result' = Some(
         [submission_id |-> TheJob.submission_id,
          verdict |-> overall_verdict,
          execution_time |-> OverallMetric(overall_verdict, max_time),
          memory_used |-> OverallMetric(overall_verdict, max_memory),
          testcase_results |-> FillSkipped(testcase_results, TheJob.testcases),
          error_message |-> None])
    /\ pc' = "ok"
    /\ UNCHANGED <<job, checker_binary, testcase_results, overall_verdict,
                   max_time, max_memory, tc, error, stored,
                   downloads, executions, checker_runs, submitted_code, run_a, run_b, compared>>
    /\ UNCHANGED notJudgeVars

----------------------------------------------------------------------------
(* process_anigma_job: anigma.rs *)

CompileMemoryLimitMb == 2048

Min(a, b) == IF a <= b THEN a ELSE b

(* triple_accel::levenshtein *)
RECURSIVE Levenshtein(_, _)
Levenshtein(a, b) ==
    IF a = <<>> THEN Len(b)
    ELSE IF b = <<>> THEN Len(a)
    ELSE Min(Min(Levenshtein(Tail(a), b) + 1, Levenshtein(a, Tail(b)) + 1),
             Levenshtein(Tail(a), Tail(b)) + (IF Head(a) = Head(b) THEN 0 ELSE 1))

(* AnigmaJudgeResult literal of the early returns *)
AnigmaEarlyResult(verdict, message) ==
    [submission_id |-> TheJob.submission_id,
     verdict |-> verdict,
     score |-> 0,
     execution_time |-> None,
     memory_used |-> None,
     testcase_results |-> <<>>,
     error_message |-> Some(message),
     edit_distance |-> None]

anigmaLocals == <<checker_binary, downloads, executions, checker_runs, run_a,
                  run_b, compared>>

(* steps 1 and 2: archive download and extraction, source text, Makefile *)
AnigmaExtract ==
    /\ pc = "a_extract"
    /\ \/ /\ error' = Some("Failed to download archive")
          /\ pc' = "err"
          /\ UNCHANGED <<submitted_code, result>>
       \/ \E code \in SourceTexts :
            /\ submitted_code' = code
            /\ \/ /\ pc' = "a_build"
                  /\ UNCHANGED result
               \/ /\ result' = Some(AnigmaEarlyResult("compile_error",
                                                      "Makefile not found"))
                  /\ pc' = "ok"
            /\ UNCHANGED error
    /\ UNCHANGED <<job, testcase_results, overall_verdict, max_time, max_memory,
                   tc, stored>>
    /\ UNCHANGED anigmaLocals
    /\ UNCHANGED notJudgeVars

AnigmaLoopHead(done) == IF done < NumTestcases THEN "a_download" ELSE "a_finalise"

(* step 3: make build through the executer *)
AnigmaBuild ==
    /\ pc = "a_build"
    /\ \/ /\ error' = Some("execute_sandboxed")
          /\ pc' = "err"
          /\ UNCHANGED result
       \/ \E run \in BuildRuns :
            LET build_result == ExecutionOutcome(IsolateMetaLines(run),
                                                 CompileMemoryLimitMb, <<>>)
            IN  /\ IF IsSuccess(build_result)
                   THEN /\ pc' = AnigmaLoopHead(0)
                        /\ UNCHANGED result
                   ELSE /\ result' = Some(AnigmaEarlyResult("compile_error",
                                                            "build stderr"))
                        /\ pc' = "ok"
                /\ UNCHANGED error
    /\ UNCHANGED <<job, testcase_results, overall_verdict, max_time, max_memory,
                   tc, stored, submitted_code>>
    /\ UNCHANGED anigmaLocals
    /\ UNCHANGED notJudgeVars

(* loop body: storage.download(&tc.input_path).await? *)
AnigmaDownload ==
    /\ pc = "a_download"
    /\ LET idx == Len(testcase_results) + 1 IN
       /\ downloads' = Append(downloads, idx)
       /\ \/ /\ tc' = [idx |-> idx, run_result |-> None]
             /\ pc' = "a_execute"
             /\ UNCHANGED error
          \/ /\ error' = Some("Failed to download input")
             /\ pc' = "err"
             /\ UNCHANGED tc
    /\ UNCHANGED <<job, checker_binary, testcase_results, overall_verdict,
                   max_time, max_memory, result, stored, executions,
                   checker_runs, submitted_code, run_a, run_b, compared>>
    /\ UNCHANGED notJudgeVars

(* loop body: execute_sandboxed(&run_spec).await? and the two maxima *)
AnigmaExecute ==
    /\ pc = "a_execute"
    /\ executions' = Append(executions, tc.idx)
    /\ \/ \E run \in UserRuns, out \in UserOutputs :
            LET run_result == ExecutionOutcome(IsolateMetaLines(run),
                                               TheJob.memory_limit, out)
            IN  /\ tc' = [tc EXCEPT !.run_result = Some(run_result)]
                /\ max_time' = Max(max_time, run_result.time_ms)
                /\ max_memory' = Max(max_memory, run_result.memory_kb)
                /\ pc' = "a_verdict"
                /\ UNCHANGED error
       \/ /\ error' = Some("execute_sandboxed")
          /\ pc' = "err"
          /\ UNCHANGED <<tc, max_time, max_memory>>
    /\ UNCHANGED <<job, checker_binary, testcase_results, overall_verdict,
                   result, stored, downloads, checker_runs, submitted_code, run_a, run_b, compared>>
    /\ UNCHANGED notJudgeVars

(* the arm of Exited(0): text is compared by compare_output, bytes that   *)
(* are not text are compared exactly                                      *)
AnigmaCompare(run_result, expected) ==
    IF expected.utf8
    THEN IF CompareOutput(run_result.stdout, expected.bytes)
         THEN "accepted" ELSE "wrong_answer"
    ELSE IF run_result.stdout_bytes = expected.bytes
         THEN "accepted" ELSE "wrong_answer"

(* whether the stdout of a run equals the expected output the testcase   *)
(* has in storage: normalised for text, byte for byte otherwise; the file *)
(* is there whether or not the arm taken fetches it                       *)
SameOutput(run_result, expected) ==
    IF expected.utf8
    THEN CompareOutput(run_result.stdout, expected.bytes)
    ELSE run_result.stdout_bytes = expected.bytes

(* a loop that would accept a run on its output whatever its status *)
AnigmaStatusVerdict_Lenient(status) == "accepted"

(* the other arms of `match run_result.status` *)
AnigmaStatusVerdict(status) ==
    CASE status.tag = "Exited" -> "wrong_answer"
      [] status.tag = "TimeLimitExceeded" -> "time_limit_exceeded"
      [] status.tag = "MemoryLimitExceeded" -> "memory_limit_exceeded"
      [] OTHER -> "wrong_answer"

(* TestcaseResult pushed by the anigma loop *)
AnigmaEntry(id, verdict, run_result) ==
    [testcase_id |-> id,
     verdict |-> verdict,
     execution_time |-> IF verdict = "accepted"
                        THEN Some(run_result.time_ms) ELSE None,
     memory_used |-> IF verdict = "accepted"
                     THEN Some(run_result.memory_kb) ELSE None]

(* the end of the loop body once the verdict is known *)
AnigmaRecord(verdict, equal) ==
    /\ compared' = Append(compared, [status |-> Unwrap(tc.run_result).status,
                                     equal |-> equal])
    /\ testcase_results' =
         Append(testcase_results,
                AnigmaEntry(TheJob.testcases[tc.idx], verdict, Unwrap(tc.run_result)))
    /\ overall_verdict' = NextOverall(verdict, overall_verdict)
    /\ pc' = IF BreaksLoop(verdict, overall_verdict)
             THEN "a_finalise" ELSE AnigmaLoopHead(tc.idx)
    /\ tc' = NoTc
    /\ UNCHANGED error

(* loop body: the verdict of the testcase *)
AnigmaVerdict ==
    /\ pc = "a_verdict"
    /\ LET rr == Unwrap(tc.run_result) IN
       IF rr.status = Exited(0)
       THEN \/ \E expected \in AnigmaExpected :
                 AnigmaRecord(AnigmaCompare(rr, expected),
                              SameOutput(rr, expected))
            \/ /\ error' = Some("Failed to download expected output")
               /\ pc' = "err"
               /\ UNCHANGED <<testcase_results, overall_verdict, tc, compared>>
       ELSE \E expected \in AnigmaExpected :
                 AnigmaRecord(AnigmaStatusVerdict(rr.status),
                              SameOutput(rr, expected))
    /\ UNCHANGED <<job, max_time, max_memory, result, stored, submitted_code>>
    /\ UNCHANGED <<checker_binary, downloads, executions, checker_runs, run_a,
                   run_b>>
    /\ UNCHANGED notJudgeVars

(* step 5: the score *)
AnigmaScore(overall, max_score) == IF overall = "accepted" THEN max_score ELSE 0

(* the edit distance to the reference text *)
EditDistance(submitted, reference_code) ==
    IF reference_code = <<>> THEN None
    ELSE Some(Levenshtein(submitted, reference_code))

(* what follows the loop: skipped entries, score, reference, result *)
AnigmaFinalise ==
    /\ pc = "a_finalise"
    /\ \/ \E reference_code \in
               (IF TheJob.reference_code_path = "" THEN {<<>>} ELSE SourceTexts) :
            /\ result' = Some(
                 [submission_id |-> TheJob.submission_id,
                  verdict |-> overall_verdict,
                  score |-> AnigmaScore(overall_verdict, TheJob.max_score),
                  execution_time |-> OverallMetric(overall_verdict, max_time),
                  memory_used |-> OverallMetric(overall_verdict, max_memory),
                  testcase_results |-> FillSkipped(testcase_results, TheJob.testcases),
                  error_message |-> None,
                  edit_distance |-> EditDistance(submitted_code, reference_code)])
            /\ pc' = "ok"
            /\ UNCHANGED error
       \/ /\ TheJob.reference_code_path # ""
          /\ error' = Some("Failed to download reference")
          /\ pc' = "err"
          /\ UNCHANGED result
    /\ UNCHANGED <<job, testcase_results, overall_verdict, max_time, max_memory,
                   tc, stored, submitted_code>>
    /\ UNCHANGED anigmaLocals
    /\ UNCHANGED notJudgeVars

----------------------------------------------------------------------------
(* process_anigma_task1_job: anigma.rs *)

Task1Score == 30

(* extract_and_build: Ok(()) or the reason of its failure *)
ExtractAndBuildOutcomes ==
    { "download failed", "Makefile not found", "execute_sandboxed" }
    \cup { IF IsSuccess(ExecutionOutcome(IsolateMetaLines(run),
                                         CompileMemoryLimitMb, <<>>))
           THEN "ok" ELSE "Build failed" : run \in BuildRuns }

(* JudgeResult literal of the build failures *)
Task1BuildFailed(message) ==
    [submission_id |-> TheJob.submission_id,
     verdict |-> "system_error",
     score |-> 0,
     execution_time |-> None,
     memory_used |-> None,
     testcase_results |-> <<>>,
     error_message |-> Some(message)]

task1Locals == <<job, checker_binary, testcase_results, overall_verdict,
                 max_time, max_memory, tc, stored, downloads, executions,
                 checker_runs, submitted_code, compared>>

(* step 1: the submitted input file *)
Task1Input ==
    /\ pc = "t1_input"
    /\ \/ /\ pc' = "t1_build_a"
          /\ UNCHANGED error
       \/ /\ error' = Some("Failed to download input")
          /\ pc' = "err"
    /\ UNCHANGED <<result, run_a, run_b>>
    /\ UNCHANGED task1Locals
    /\ UNCHANGED notJudgeVars

(* steps 2 and 3: build of code A, then of code B *)
Task1Build(at, next, message) ==
    /\ pc = at
    /\ \/ \E o \in ExtractAndBuildOutcomes :
            /\ IF o = "ok"
               THEN /\ pc' = next
                    /\ UNCHANGED result
               ELSE /\ result' = Some(Task1BuildFailed(message))
                    /\ pc' = "ok"
            /\ UNCHANGED error
       \/ /\ error' = Some("io")                 \* tempfile::tempdir()?
          /\ pc' = "err"
          /\ UNCHANGED result
    /\ UNCHANGED <<run_a, run_b>>
    /\ UNCHANGED task1Locals
    /\ UNCHANGED notJudgeVars

Task1BuildA == Task1Build("t1_build_a", "t1_build_b", "Code A build failed")
Task1BuildB == Task1Build("t1_build_b", "t1_run_a", "Code B build failed")

(* a decision that would reward only differing outputs of two clean runs *)
Task1Decide_OutputsOnly(output_a, output_b) ==
    IF output_a.status = Exited(0) /\ output_b.status = Exited(0)
         /\ output_a.stdout # output_b.stdout
    THEN [verdict |-> "accepted", score |-> Task1Score, error_message |-> None]
    ELSE IF output_b.status # Exited(0)
    THEN [verdict |-> "system_error", score |-> 0,
          error_message |-> Some("Code B execution failed")]
    ELSE [verdict |-> "wrong_answer", score |-> 0, error_message |-> None]

(* step 7: verdict, score and message from the two outcomes *)
Task1Decide(output_a, output_b) ==
    LET a_success == output_a.status = Exited(0)
        b_success == output_b.status = Exited(0)
        a_runtime_error == ~a_success
        b_runtime_error == ~b_success
    IN  IF a_runtime_error /\ b_runtime_error
        THEN [verdict |-> "system_error", score |-> 0,
              error_message |-> Some("Both Code A and Code B execution failed")]
        ELSE IF a_runtime_error /\ b_success
        THEN [verdict |-> "accepted", score |-> Task1Score, error_message |-> None]
        ELSE IF a_success /\ b_runtime_error
        THEN [verdict |-> "system_error", score |-> 0,
              error_message |-> Some("Code B execution failed")]
        ELSE LET is_different == output_a.stdout # output_b.stdout IN
             [verdict |-> IF is_different THEN "accepted" ELSE "wrong_answer",
              score |-> IF is_different THEN Task1Score ELSE 0,
              error_message |-> None]

(* the JudgeResult of task 1 *)
Task1Result(output_a, output_b) ==
    LET d == Task1Decide(output_a, output_b)
        max_t == Max(output_a.time_ms, output_b.time_ms)
        max_m == Max(output_a.memory_kb, output_b.memory_kb)
    IN  [submission_id |-> TheJob.submission_id,
         verdict |-> d.verdict,
         score |-> d.score,
         execution_time |-> IF d.verdict = "accepted" THEN Some(max_t) ELSE None,
         memory_used |-> IF d.verdict = "accepted" THEN Some(max_m) ELSE None,
         testcase_results |-> <<>>,
         error_message |-> d.error_message]

(* steps 4 and 5: the input is written to both directories, A is run *)
Task1RunA ==
    /\ pc = "t1_run_a"
    /\ \/ \E run \in UserRuns, out \in UserOutputs :
            /\ run_a' = Some(ExecutionOutcome(IsolateMetaLines(run),
                                              TheJob.memory_limit, out))
            /\ pc' = "t1_run_b"
            /\ UNCHANGED error
       \/ /\ error' = Some("execute_sandboxed")
          /\ pc' = "err"
          /\ UNCHANGED run_a
    /\ UNCHANGED <<result, run_b>>
    /\ UNCHANGED task1Locals
    /\ UNCHANGED notJudgeVars

(* steps 6 and 7: B is run and the result built *)
Task1RunB ==
    /\ pc = "t1_run_b"
    /\ \/ \E run \in UserRuns, out \in UserOutputs :
            /\ run_b' = Some(ExecutionOutcome(IsolateMetaLines(run),
                                              TheJob.memory_limit, out))
            /\ result' = Some(Task1Result(Unwrap(run_a), Unwrap(run_b')))
            /\ pc' = "ok"
            /\ UNCHANGED error
       \/ /\ error' = Some("execute_sandboxed")
          /\ pc' = "err"
          /\ UNCHANGED <<result, run_b>>
    /\ UNCHANGED run_a
    /\ UNCHANGED task1Locals
    /\ UNCHANGED notJudgeVars

----------------------------------------------------------------------------
(* The Judge arm of the main loop: main.rs *)

(* the error_result literal of the Err arm *)
ErrorResult(submission_id, message) ==
    [submission_id |-> submission_id,
     verdict |-> "system_error",
     execution_time |-> None,
     memory_used |-> None,
     testcase_results |-> <<>>,
     error_message |-> Some(message)]

(* Ok(result) => store_judge_result(.., &result) *)
StoreOk ==
    /\ pc = "ok"
    /\ TheJob.kind = "judge"
    /\ \/ stored' = result
       \/ stored' = None                  \* "Failed to store judge result"
    /\ pc' = "pop"
    /\ UNCHANGED <<job, checker_binary, testcase_results, overall_verdict,
                   max_time, max_memory, tc, result, error,
                   downloads, executions, checker_runs, submitted_code, run_a, run_b, compared>>
    /\ UNCHANGED notJudgeVars

(* Err(e) => store_judge_result(.., &error_result) *)
StoreErr ==
    /\ pc = "err"
    /\ TheJob.kind = "judge"
    /\ \/ stored' = Some(ErrorResult(TheJob.submission_id, Unwrap(error)))
       \/ stored' = None                  \* "Failed to store error result"
    /\ pc' = "pop"
    /\ UNCHANGED <<job, checker_binary, testcase_results, overall_verdict,
                   max_time, max_memory, tc, result, error,
                   downloads, executions, checker_runs, submitted_code, run_a, run_b, compared>>
    /\ UNCHANGED notJudgeVars

(* The arms of the other job kinds: a result is stored as it is, an error *)
(* becomes a system_error-shaped result carrying the error string.        *)
JudgeResultSystemError(submission_id, message) ==
    [submission_id |-> submission_id,
     verdict |-> "system_error",
     score |-> 0,
     execution_time |-> None,
     memory_used |-> None,
     testcase_results |-> <<>>,
     error_message |-> Some(message)]

(* AnigmaJudgeResult::system_error *)
AnigmaSystemError(submission_id, message) ==
    [submission_id |-> submission_id,
     verdict |-> "system_error",
     score |-> 0,
     execution_time |-> None,
     memory_used |-> None,
     testcase_results |-> <<>>,
     error_message |-> Some(message),
     edit_distance |-> None]

StoreAnigmaOk ==
    /\ pc = "ok"
    /\ TheJob.kind # "judge"
    /\ stored' = result
    /\ pc' = "pop"
    /\ UNCHANGED <<job, checker_binary, testcase_results, overall_verdict,
                   max_time, max_memory, tc, result, error,
                   downloads, executions, checker_runs, submitted_code, run_a, run_b, compared>>
    /\ UNCHANGED notJudgeVars

StoreAnigmaErr ==
    /\ pc = "err"
    /\ TheJob.kind # "judge"
    /\ stored' = Some(IF TheJob.kind = "anigma"
                      THEN AnigmaSystemError(TheJob.submission_id, Unwrap(error))
                      ELSE JudgeResultSystemError(TheJob.submission_id, Unwrap(error)))
    /\ pc' = "pop"
    /\ UNCHANGED <<job, checker_binary, testcase_results, overall_verdict,
                   max_time, max_memory, tc, result, error,
                   downloads, executions, checker_runs, submitted_code, run_a, run_b, compared>>
    /\ UNCHANGED notJudgeVars

Next ==
    \/ PopJob
    \/ ResolveLanguage
    \/ Compile
    \/ GetChecker
    \/ DownloadTestcase
    \/ ExecuteTestcase
    \/ JudgeTestcase
    \/ Finalise
    \/ StoreOk
    \/ StoreErr
    \/ AnigmaExtract
    \/ AnigmaBuild
    \/ AnigmaDownload
    \/ AnigmaExecute
    \/ AnigmaVerdict
    \/ AnigmaFinalise
    \/ Task1Input
    \/ Task1BuildA
    \/ Task1BuildB
    \/ Task1RunA
    \/ Task1RunB
    \/ StoreAnigmaOk
    \/ StoreAnigmaErr


----------------------------------------------------------------------------
(* Box id allocation: engine/executer.rs, sandbox/config.rs, main.rs *)

MAX_WORKERS == 10
BoxRange == 1000
MaxAllocations == 3

(* a u32 as two 16-bit limbs, value hi * 65536 + lo *)
Limb == 65536
U32(hi, lo) == [hi |-> hi, lo |-> lo]
U32Max == U32(Limb - 1, Limb - 1)

(* u32 addition of a small number, modulo 2^32, with its overflow flag *)
U32AddSmall(c, k) ==
    LET lo == c.lo + k
        hi == c.hi + (lo \div Limb)
    IN  [value |-> U32(hi % Limb, lo % Limb), overflow |-> hi >= Limb]

(* u32 multiplication by a small number, modulo 2^32, with its overflow flag *)
U32MulSmall(c, k) ==
    LET lo == c.lo * k
        hi == c.hi * k + (lo \div Limb)
    IN  [value |-> U32(hi % Limb, lo % Limb), overflow |-> hi >= Limb]

(* c % m for a small m *)
U32Mod(c, m) == ((c.hi % m) * (Limb % m) + c.lo) % m

(* AtomicU32::fetch_add(1) and u32::wrapping_add(1): both wrap *)
WrappingInc(c) == U32AddSmall(c, 1).value

(* a next_box_id that forgets the modulo *)
NextBoxId_Unreduced(w, counter) == w * BoxRange + counter.lo

(* next_box_id, given the value fetch_add returned *)
NextBoxId(w, counter) == w * BoxRange + U32Mod(counter, BoxRange)

(* calculate_box_id: Some(id), or None where the arithmetic overflows in a *)
(* build with overflow checks, which panics                                *)
CalculateBoxId(b, w, base_counter, testcase_idx) ==
    LET effective_worker_id == w % 10
        worker_offset == effective_worker_id * BoxRange
        product == U32MulSmall(base_counter, 10)
        sum == U32AddSmall(product.value, testcase_idx)
    IN  IF b = "debug" /\ (product.overflow \/ sum.overflow)
        THEN None
        ELSE Some(worker_offset + U32Mod(sum.value, BoxRange))

(* counter values from which the next few allocations cross a multiple of *)
(* 1000, the point where base_counter * 10 leaves 32 bits, and 2^32       *)
CounterStarts ==
    { U32(0, 0), U32(0, 998), U32(6553, 39320), U32(Limb - 1, Limb - 2) }

IdleBoxIds ==
    /\ build = "release"
    /\ worker_id = 0
    /\ BOX_ID_COUNTER = U32(0, 0)
    /\ box_id_counter = U32(0, 0)
    /\ allocated = {}
    /\ allocations = 0

(* execute_sandboxed takes its box id from next_box_id *)
AllocateNextBoxId ==
    /\ allocations < MaxAllocations
    /\ allocated' = {Some(NextBoxId(worker_id, BOX_ID_COUNTER))}
    /\ BOX_ID_COUNTER' = WrappingInc(BOX_ID_COUNTER)
    /\ allocations' = allocations + 1
    /\ UNCHANGED <<build, worker_id, box_id_counter>>
    /\ UNCHANGED <<judgeVars, storeVars, workerVars, partVars>>

(* main loop, Judge arm: the counter is read and advanced, the job takes *)
(* box calculate_box_id(base, 0) to compile and (base, i) for testcase i *)
AllocateJobBoxIds ==
    /\ allocations < MaxAllocations
    /\ \E n \in 0..MaxTestcases :
         allocated' = { CalculateBoxId(build, worker_id, box_id_counter, i) :
                            i \in 0..n }
    /\ box_id_counter' = WrappingInc(box_id_counter)
    /\ allocations' = allocations + 1
    /\ UNCHANGED <<build, worker_id, BOX_ID_COUNTER>>
    /\ UNCHANGED <<judgeVars, storeVars, workerVars, partVars>>

NextBoxIds ==
    \/ AllocateNextBoxId
    \/ AllocateJobBoxIds

(* C9: every box id allocated by a worker with index w in 0..9, by        *)
(* next_box_id or by calculate_box_id, after any number of allocations    *)
(* and across the wrap-around of the counters, lies in                    *)
(* [w*1000, w*1000+999].                                                  *)
C9_BoxIdsInWorkerRange ==
    \A b \in allocated :
        IsSome(b) =>
            /\ Unwrap(b) >= worker_id * 1000
            /\ Unwrap(b) <= worker_id * 1000 + 999

(* C9 witness: worker 7 allocates box 7000 from a counter that has just   *)
(* wrapped around 2^32 to zero.                                           *)
C9_Witness ==
    /\ worker_id = 7
    /\ allocations = 3
    /\ BOX_ID_COUNTER = U32(0, 1)
    /\ allocated = {Some(7000)}

----------------------------------------------------------------------------
(* Result delivery: redis_manager.rs and main.rs *)

(* the results a store operation may be handed, by kind *)
StoreKinds == {"judge", "anigma", "validate"}

StoreResults ==
    { [kind |-> k, id |-> i, verdict |-> v] :
        k \in StoreKinds, i \in {1}, v \in {"accepted", "wrong_answer"} }

(* serde_json::to_string: the text of a result *)
ToJson(r) == <<"{", "id", ":", r.id, ",", "verdict", ":", r.verdict, "}">>

(* the key and the channel of a kind *)
ResultKey(r) ==
    CASE r.kind = "judge" -> <<"judge:result:", r.id>>
      [] r.kind = "validate" -> <<"validate:result:", r.id>>
      [] OTHER -> <<"anigma:result:", r.id>>

ResultChannel(r) ==
    CASE r.kind = "judge" -> "judge:results"
      [] r.kind = "validate" -> "validate:results"
      [] OTHER -> "anigma:results"

AllResultKeys == { ResultKey(r) : r \in StoreResults }

IdleStore ==
    /\ redis_keys = [k \in AllResultKeys |-> None]
    /\ store_call = None
    /\ store_ops = <<>>
    /\ store_ret = None

RedisOp(cmd, target, payload, ok) ==
    [cmd |-> cmd, target |-> target, payload |-> payload, ok |-> ok]

(* a store that would write the key again after a successful write *)
SetExAttempts_Rewrites(key, json) ==
    { <<RedisOp("SETEX", key, json, TRUE), RedisOp("SETEX", key, json, TRUE)>> }

(* a store that would try the key a third time *)
SetExAttempts_Thrice(key, json) ==
    { <<RedisOp("SETEX", key, json, FALSE), RedisOp("SETEX", key, json, FALSE),
        RedisOp("SETEX", key, json, ok)>> : ok \in BOOLEAN }

(* the SETEX commands of a store: one, or a failed one and its retry *)
SetExAttempts(key, json) ==
    { <<RedisOp("SETEX", key, json, TRUE)>>,
      <<RedisOp("SETEX", key, json, FALSE), RedisOp("SETEX", key, json, TRUE)>>,
      <<RedisOp("SETEX", key, json, FALSE), RedisOp("SETEX", key, json, FALSE)>> }

KeyWritten(ops) == \E i \in 1..Len(ops) : ops[i].cmd = "SETEX" /\ ops[i].ok

(* RedisManager::store_result: the publish is issued once, its outcome dropped *)
ManagerPublish(channel, json) ==
    { [ops |-> <<RedisOp("PUBLISH", channel, json, ok)>>, ret |-> "Ok"] :
        ok \in BOOLEAN }

(* store_judge_result of main.rs: a failed publish is retried on a new    *)
(* connection and the failure of the retry is returned                    *)
MainPublish(channel, json) ==
    { [ops |-> <<RedisOp("PUBLISH", channel, json, TRUE)>>, ret |-> "Ok"],
      [ops |-> <<RedisOp("PUBLISH", channel, json, FALSE),
                 RedisOp("PUBLISH", channel, json, TRUE)>>, ret |-> "Ok"],
      [ops |-> <<RedisOp("PUBLISH", channel, json, FALSE),
                 RedisOp("PUBLISH", channel, json, FALSE)>>, ret |-> "Err"] }

(* the body shared by the two: key first, then the publish *)
StoreWith(fn, r, publishes) ==
    LET json == ToJson(r)
        key == ResultKey(r)
    IN  /\ store_call' = Some([fn |-> fn, result |-> r])
        /\ \E sets \in SetExAttempts(key, json) :
             IF KeyWritten(sets)
             THEN /\ redis_keys' = [redis_keys EXCEPT ![key] = Some(json)]
                  /\ \E p \in publishes :
                       /\ store_ops' = sets \o p.ops
                       /\ store_ret' = Some(p.ret)
             ELSE /\ store_ops' = sets
                  /\ store_ret' = Some("Err")
                  /\ UNCHANGED redis_keys
        /\ UNCHANGED <<judgeVars, boxIdVars, workerVars, partVars>>

(* RedisManager::store_judge_result, store_anigma_result, store_validate_result *)
StoreResult ==
    \E r \in StoreResults :
        StoreWith("RedisManager::store_result", r,
                  ManagerPublish(ResultChannel(r), ToJson(r)))

(* store_judge_result of main.rs *)
StoreJudgeResult ==
    \E r \in { x \in StoreResults : x.kind = "judge" } :
        StoreWith("store_judge_result", r,
                  MainPublish(ResultChannel(r), ToJson(r)))

NextStore ==
    \/ StoreResult
    \/ StoreJudgeResult

(* the key is written before the publish, with the same payload *)
KeyBeforePublish ==
    \A i \in 1..Len(store_ops) :
        store_ops[i].cmd = "PUBLISH" =>
            \E k \in 1..(i - 1) :
                /\ store_ops[k].cmd = "SETEX"
                /\ store_ops[k].ok
                /\ store_ops[k].payload = store_ops[i].payload

(* C10, as claimed: in every store of a judge, anigma or validate result  *)
(* the key is written (SETEX) before the publish, with the same JSON; a   *)
(* publish failure is swallowed, the store still reporting success; a     *)
(* failure to write the key makes the store fail without publishing.      *)
C10_AsClaimed ==
    IsSome(store_call) =>
        /\ KeyBeforePublish
        /\ KeyWritten(store_ops) => store_ret = Some("Ok")
        /\ ~KeyWritten(store_ops) =>
              /\ store_ret = Some("Err")
              /\ \A i \in 1..Len(store_ops) : store_ops[i].cmd # "PUBLISH"

----------------------------------------------------------------------------
(* Worker identity lease and sandbox boxes: redis_manager.rs, main.rs,    *)
(* engine/executer.rs, compiler/mod.rs, sandbox/isolate_box.rs            *)

Procs == {1, 2}
MaxBoxAllocations == 2

WORKER_LEASE_TTL_SECS == 120
(* the heartbeat sleeps WORKER_LEASE_TTL_SECS / 2 between refreshes *)
HeartbeatIntervalSecs == WORKER_LEASE_TTL_SECS \div 2
(* model time advances by one heartbeat interval; a fresh lease lives for *)
LeaseTicks == WORKER_LEASE_TTL_SECS \div HeartbeatIntervalSecs

(* the box the cgroup probe initialises and cleans up *)
ProbeBoxId == 99

WorkerIds == 0..(MAX_WORKERS - 1)

IdleExec == [pc |-> "idle", op |-> "none", box |-> None,
             inited |-> FALSE, cleanup_called |-> FALSE]

IdleWorkers ==
    /\ lease = [i \in WorkerIds |-> 0]
    /\ proc = [p \in Procs |-> [st |-> "start", try_id |-> 0, worker_id |-> None]]
    /\ hb_due = [p \in Procs |-> FALSE]
    /\ exec = [p \in Procs |-> IdleExec]
    /\ counters = [p \in Procs |-> [executer |-> U32(0, 0), main |-> U32(0, 0)]]
    /\ boxes = {}
    /\ box_ops = {}

(* a process holding a worker index: from the claim until it exits *)
Live(p) == proc[p].st \in {"claimed", "running"}

(* allocate_worker_id, one SET NX EX per step of its for loop *)
TryClaim(p) ==
    /\ proc[p].st = "start"
    /\ LET i == proc[p].try_id IN
       \/ /\ proc' = [proc EXCEPT ![p].st = "exited"]      \* query_async(..).await?
          /\ UNCHANGED lease
       \/ IF lease[i] = 0
          THEN /\ lease' = [lease EXCEPT ![i] = LeaseTicks]
               /\ proc' = [proc EXCEPT ![p].st = "claimed", ![p].worker_id = Some(i)]
          ELSE /\ proc' = [proc EXCEPT ![p].try_id =
                               IF i + 1 < MAX_WORKERS THEN i + 1 ELSE 0]
               /\ UNCHANGED lease
    /\ UNCHANGED <<hb_due, exec, counters, boxes, box_ops>>
    /\ UNCHANGED <<judgeVars, boxIdVars, storeVars, partVars>>

(* is_cgroups_available, as first called by main: box 99 is initialised   *)
(* and cleaned up whatever the worker index                               *)
StartupProbe(p) ==
    /\ proc[p].st = "claimed"
    /\ boxes' = { b \in boxes : b.id # ProbeBoxId }
    /\ box_ops' = box_ops \cup {<<p, ProbeBoxId>>}
    /\ \E available \in BOOLEAN :
         proc' = [proc EXCEPT ![p].st = IF available THEN "running" ELSE "exited"]
    /\ UNCHANGED <<lease, hb_due, exec, counters>>
    /\ UNCHANGED <<judgeVars, boxIdVars, storeVars, partVars>>

(* an EXPIRE that would leave the time to live as it is *)
Expire_Unchanged(ttl) == ttl

(* EXPIRE key WORKER_LEASE_TTL_SECS: the time to live is set anew on a    *)
(* key that exists, an absent key stays absent                            *)
Expire(ttl) == IF ttl > 0 THEN LeaseTicks ELSE 0

(* spawn_lease_heartbeat, one turn of its loop after the sleep, the       *)
(* connection obtained and the EXPIRE answered                            *)
HeartbeatOk(p) ==
    /\ Live(p)
    /\ hb_due[p]
    /\ hb_due' = [hb_due EXCEPT ![p] = FALSE]
    /\ LET i == Unwrap(proc[p].worker_id) IN
       lease' = [lease EXCEPT ![i] = Expire(lease[i])]
    /\ UNCHANGED <<proc, exec, counters, boxes, box_ops>>
    /\ UNCHANGED <<judgeVars, boxIdVars, storeVars, partVars>>

(* the same turn when the command fails: "Failed to refresh worker lease" *)
(* is logged and the loop goes on                                         *)
HeartbeatFailed(p) ==
    /\ Live(p)
    /\ hb_due[p]
    /\ hb_due' = [hb_due EXCEPT ![p] = FALSE]
    /\ UNCHANGED <<lease, proc, exec, counters, boxes, box_ops>>
    /\ UNCHANGED <<judgeVars, boxIdVars, storeVars, partVars>>

(* spawn_lease_heartbeat, one turn of its loop after the sleep: EXPIRE on *)
(* the key, which does nothing to an absent key; a failure is only logged *)
Heartbeat(p) == HeartbeatOk(p) \/ HeartbeatFailed(p)

(* one heartbeat interval passes: every lease key ages, every heartbeat  *)
(* task wakes up                                                         *)
Tick ==
    /\ \A p \in Procs : ~hb_due[p]
    /\ lease' = [i \in WorkerIds |-> IF lease[i] > 0 THEN lease[i] - 1 ELSE 0]
    /\ hb_due' = [p \in Procs |-> Live(p)]
    /\ UNCHANGED <<proc, exec, counters, boxes, box_ops>>
    /\ UNCHANGED <<judgeVars, boxIdVars, storeVars, partVars>>

(* the box id of an operation and the counters after it: execute_sandboxed *)
(* asks next_box_id, a compile gets calculate_box_id(base_counter, 0) from  *)
(* the main loop                                                            *)
OperationBoxId(op, w, c) ==
    IF op = "execute"
    THEN NextBoxId(w, c.executer)
    ELSE Unwrap(CalculateBoxId("release", w, c.main, 0))

CountersAfter(op, c) ==
    IF op = "execute"
    THEN [c EXCEPT !.executer = WrappingInc(c.executer)]
    ELSE [c EXCEPT !.main = WrappingInc(c.main)]

(* the operation returns to its caller; the box is left as it is *)
Return(p) == exec' = [exec EXCEPT ![p].pc = "idle"]

(* execute_sandboxed / compile_in_sandbox up to IsolateBox::new: a stale *)
(* box of that id is cleaned up, then the box is initialised             *)
BoxNew(p) ==
    /\ proc[p].st = "running"
    /\ exec[p].pc = "idle"
    /\ counters[p].executer.lo + counters[p].main.lo < MaxBoxAllocations
    /\ \E op \in {"execute", "compile"} :
         LET id == OperationBoxId(op, Unwrap(proc[p].worker_id), counters[p]) IN
         /\ counters' = [counters EXCEPT ![p] = CountersAfter(op, counters[p])]
         /\ box_ops' = box_ops \cup {<<p, id>>}
         /\ \/ /\ boxes' = { b \in boxes : b.id # id } \cup {[id |-> id, owner |-> p]}
               /\ exec' = [exec EXCEPT ![p] =
                              [pc |-> "inited", op |-> op, box |-> Some(id),
                               inited |-> TRUE, cleanup_called |-> FALSE]]
            \/ /\ boxes' = { b \in boxes : b.id # id }   \* isolate --init failed
               /\ exec' = [exec EXCEPT ![p] =
                              [pc |-> "idle", op |-> op, box |-> Some(id),
                               inited |-> FALSE, cleanup_called |-> FALSE]]
    /\ UNCHANGED <<lease, proc, hb_due>>
    /\ UNCHANGED <<judgeVars, boxIdVars, storeVars, partVars>>

(* a step of the operation between init and cleanup: it succeeds, or its *)
(* error is returned with `?`                                            *)
BoxStep(p, at, next) ==
    /\ exec[p].pc = at
    /\ \/ exec' = [exec EXCEPT ![p].pc = next]
       \/ Return(p)
    /\ UNCHANGED <<lease, proc, hb_due, counters, boxes, box_ops>>
    /\ UNCHANGED <<judgeVars, boxIdVars, storeVars, partVars>>

(* isolate_box.copy_dir_in(..).await? *)
StageIn(p) ==
    BoxStep(p, "inited", IF exec[p].op = "execute" THEN "staged" ELSE "ready")

(* NamedTempFile::new()? and fs::write(..).await? of the stdin *)
MaterialiseStdin(p) == BoxStep(p, "staged", "ready")

(* isolate_box.run(..).await? / Command::new("isolate")..output().await? : *)
(* the command has run, whatever its exit status                           *)
RunIsolate(p) == BoxStep(p, "ready", "ran")

(* the copy of the box's files to the caller's directory *)
StageOut(p) == BoxStep(p, "ran", "copied")

(* isolate_box.cleanup().await? and the return that follows *)
BoxCleanup(p) ==
    /\ exec[p].pc = "copied"
    /\ boxes' = { b \in boxes : b.id # Unwrap(exec[p].box) }
    /\ box_ops' = box_ops \cup {<<p, Unwrap(exec[p].box)>>}
    /\ exec' = [exec EXCEPT ![p].pc = "idle", ![p].cleanup_called = TRUE]
    /\ UNCHANGED <<lease, proc, hb_due, counters>>
    /\ UNCHANGED <<judgeVars, boxIdVars, storeVars, partVars>>

NextLeases ==
    \/ \E p \in Procs : TryClaim(p)
    \/ \E p \in Procs : Heartbeat(p)
    \/ Tick

(* the same processes while every refresh command succeeds *)
NextLeasesRefreshed ==
    \/ \E p \in Procs : TryClaim(p)
    \/ \E p \in Procs : HeartbeatOk(p)
    \/ Tick

NextBoxes ==
    \/ \E p \in Procs : StartupProbe(p)
    \/ \E p \in Procs : BoxNew(p)
    \/ \E p \in Procs : StageIn(p)
    \/ \E p \in Procs : MaterialiseStdin(p)
    \/ \E p \in Procs : RunIsolate(p)
    \/ \E p \in Procs : StageOut(p)
    \/ \E p \in Procs : BoxCleanup(p)

(* C6, as claimed: at every moment no two running worker processes hold   *)
(* the same worker index, also when a lease refresh is delayed or fails   *)
(* for longer than the 120 s of the lease.                                *)
C6_AsClaimed ==
    \A p, q \in Procs :
        (p # q /\ Live(p) /\ Live(q)) => proc[p].worker_id # proc[q].worker_id

(* C7, as claimed: every successful box initialisation is followed by a   *)
(* cleanup of that box before the execute or compile operation returns,   *)
(* on every exit path.                                                    *)
C7_AsClaimed ==
    \A p \in Procs :
        (exec[p].pc = "idle" /\ exec[p].inited) => exec[p].cleanup_called

(* the ids of worker index w *)
InWorkerRange(id, w) == id >= w * 1000 /\ id <= w * 1000 + 999

(* C8, as claimed: no box id is ever initialised or cleaned up by two     *)
(* worker processes, and every box operation of the worker with index w,  *)
(* the startup cgroup probe included, uses an id in [w*1000, w*1000+999]. *)
C8_AsClaimed ==
    /\ \A o \in box_ops : InWorkerRange(o[2], Unwrap(proc[o[1]].worker_id))
    /\ \A o1, o2 \in box_ops : o1[2] = o2[2] => o1[1] = o2[1]

----------------------------------------------------------------------------
(* The main loop of the worker: main.rs, redis_manager.rs *)

MaxJobs == 2

(* the payloads a queue entry may carry: text that is not a WorkerJob,   *)
(* a judge job, or a validate job                                        *)
LoopLanguages == {"cpp", "cobol"}

QueuePayloads(n) ==
    {[kind |-> "malformed"]}
    \cup { [kind |-> "judge", submission_id |-> n, language |-> l,
            problem_type |-> "icpc", checker_path |-> None] :
              l \in LoopLanguages }
    \cup {[kind |-> "judge", submission_id |-> n, language |-> "cpp",
           problem_type |-> "special_judge", checker_path |-> None]}
    \cup {[kind |-> "validate", problem_id |-> n]}

(* serde_json::from_str::<WorkerJob>: Some(job), or None for a parse error *)
ParseWorkerJob(payload) ==
    IF payload.kind = "malformed" THEN None ELSE Some(payload)

(* counter values of main.rs from which the second job of a worker is the *)
(* first whose base_counter * 10 leaves 32 bits                           *)
LoopCounterStarts == { U32(0, 0), U32(6553, 39321) }

IdleLoop ==
    /\ queue = <<>>
    /\ enqueued = 0
    /\ loop_pc = "blpop"
    /\ current = None
    /\ pending = None
    /\ phase = [n \in 1..MaxJobs |-> "absent"]
    /\ key_writes = [n \in 1..MaxJobs |-> 0]
    /\ last_iteration = None

(* what the main loop leaves alone *)
notLoopVars == <<judgeVars, storeVars, workerVars, cacheVars, compareVars,
                 build, worker_id, BOX_ID_COUNTER, allocated, allocations, moreVars>>

Returned(r) == [tag |-> "Ok", result |-> r]
Failed(message) == [tag |-> "Err", message |-> message]
Panicked == [tag |-> "Panic"]

(* a JudgeResult that process_judge_job returns early or at its end *)
LoopJudgeResult(j, verdict, message) ==
    [submission_id |-> j.submission_id,
     verdict |-> verdict,
     execution_time |-> None,
     memory_used |-> None,
     testcase_results |-> <<>>,
     error_message |-> message]

(* process_judge_job as the main loop sees it: what it may return for a  *)
(* job, the compiler, the storage and the submitted program being free.  *)
(* calculate_box_id panics where its arithmetic overflows in a build     *)
(* with overflow checks.                                                 *)
ProcessJudgeJob(j, base_counter) ==
    IF GetLanguageConfig(j.language) = None
    THEN { Failed("Unsupported language") }
    ELSE IF CalculateBoxId(build, worker_id, base_counter, 0) = None
    THEN { Panicked }
    ELSE { Returned(LoopJudgeResult(j, "compile_error", Some("compile output"))) }
         \cup
         (IF j.problem_type = "special_judge" /\ j.checker_path = None
          THEN { Returned(LoopJudgeResult(j, "system_error",
                     Some("Special judge problem requires a checker"))) }
          ELSE { Failed("Failed to download testcase input"),
                 Returned(LoopJudgeResult(j, "accepted", None)) })

(* a ValidateResult *)
LoopValidateResult(j, success, message) ==
    [problem_id |-> j.problem_id,
     success |-> success,
     testcase_results |-> <<>>,
     error_message |-> message]

(* process_validate_job as the main loop sees it *)
ProcessValidateJob(j) ==
    { Failed("Failed to create temporary directory"),
      Returned(LoopValidateResult(j, TRUE, None)) }

(* one trip round the loop: the entry taken, the result handed to the    *)
(* store if any, the Redis commands of the store and what it returned    *)
Iteration(entry, r, ops, ret) ==
    [entry |-> entry, result |-> r, ops |-> ops, ret |-> ret]

(* the number of SETEX commands of a store that succeeded *)
SetExDone(ops) ==
    Cardinality({ i \in 1..Len(ops) : ops[i].cmd = "SETEX" /\ ops[i].ok })

(* the web server pushes an entry to the tail of the queue *)
Enqueue ==
    /\ enqueued < MaxJobs
    /\ \E p \in QueuePayloads(enqueued + 1) :
         queue' = Append(queue, [n |-> enqueued + 1, payload |-> p])
    /\ enqueued' = enqueued + 1
    /\ phase' = [phase EXCEPT ![enqueued + 1] = "queued"]
    /\ UNCHANGED <<loop_pc, current, pending, key_writes, last_iteration,
                   box_id_counter>>
    /\ UNCHANGED notLoopVars

(* a loop that would also take an entry while a result awaits its store *)
AtDequeue_Early == loop_pc \in {"blpop", "store"}

(* the BLPOP is the first statement of the loop body and the only one    *)
(* that takes an entry                                                   *)
AtDequeue == loop_pc = "blpop"

(* BLPOP returns the head of the queue; an entry that does not parse is  *)
(* logged and the loop goes round                                        *)
BlpopOk ==
    /\ AtDequeue
    /\ queue # <<>>
    /\ LET entry == Head(queue)
           parsed == ParseWorkerJob(entry.payload)
       IN  /\ queue' = Tail(queue)
           /\ IF IsSome(parsed)
              THEN /\ current' = Some(entry)
                   /\ loop_pc' = "process"
                   /\ phase' = [phase EXCEPT ![entry.n] = "dequeued"]
                   /\ UNCHANGED last_iteration
              ELSE /\ current' = None           \* "Failed to parse job data"
                   /\ loop_pc' = "blpop"
                   /\ phase' = [phase EXCEPT ![entry.n] = "dropped"]
                   /\ last_iteration' = Some(Iteration(entry, None, <<>>, None))
    /\ UNCHANGED <<enqueued, pending, key_writes, box_id_counter>>
    /\ UNCHANGED notLoopVars

(* BLPOP fails: the loop asks for a new connection *)
BlpopErr ==
    /\ AtDequeue
    /\ loop_pc' = "reconnect"
    /\ UNCHANGED <<queue, enqueued, current, pending, phase, key_writes,
                   last_iteration, box_id_counter>>
    /\ UNCHANGED notLoopVars

(* get_redis_connection returns once Redis answers, and the loop continues *)
Reconnected ==
    /\ loop_pc = "reconnect"
    /\ loop_pc' = "blpop"
    /\ UNCHANGED <<queue, enqueued, current, pending, phase, key_writes,
                   last_iteration, box_id_counter>>
    /\ UNCHANGED notLoopVars

(* the result the Ok arm or the Err arm of a job kind hands to the store *)
ArmResult(j, o) ==
    IF o.tag = "Ok" THEN o.result
    ELSE IF j.kind = "judge" THEN ErrorResult(j.submission_id, o.message)
    ELSE LoopValidateResult(j, FALSE, Some(o.message))

(* the Judge arm and the Validate arm up to the store: process the job;  *)
(* nothing catches a panic, which unwinds main and ends the process      *)
ProcessJob ==
    /\ loop_pc = "process"
    /\ LET entry == Unwrap(current)
           j == entry.payload
           outcomes == IF j.kind = "judge"
                       THEN ProcessJudgeJob(j, box_id_counter)
                       ELSE ProcessValidateJob(j)
       IN  /\ box_id_counter' = IF j.kind = "judge"
                                THEN WrappingInc(box_id_counter)
                                ELSE box_id_counter
           /\ \E o \in outcomes :
                IF o.tag = "Panic"
                THEN /\ loop_pc' = "dead"
                     /\ pending' = None
                     /\ phase' = [phase EXCEPT ![entry.n] = "panicked"]
                ELSE /\ loop_pc' = "store"
                     /\ pending' = Some(ArmResult(j, o))
                     /\ phase' = [phase EXCEPT ![entry.n] = "processed"]
    /\ UNCHANGED <<queue, enqueued, current, key_writes, last_iteration>>
    /\ UNCHANGED notLoopVars

(* a loop that would stop at a result it could not store *)
AfterStore_Halts(ret) == IF ret = "Err" THEN "halted" ELSE "blpop"

(* where the loop goes once the store has returned: the error of a store *)
(* is logged, nothing else                                               *)
AfterStore(ret) == "blpop"

(* store_judge_result of main.rs, or store_validate_result; whatever it  *)
(* returns is logged and the loop goes round                             *)
StoreOutcome ==
    /\ loop_pc = "store"
    /\ LET entry == Unwrap(current)
           j == entry.payload
           r == Unwrap(pending)
           target == [kind |-> j.kind, id |-> entry.n]
           key == ResultKey(target)
           channel == ResultChannel(target)
           publishes == IF j.kind = "judge"
                        THEN MainPublish(channel, r)
                        ELSE ManagerPublish(channel, r)
       IN  \E sets \in SetExAttempts(key, r) :
             \E p \in publishes :
               LET ops == IF KeyWritten(sets) THEN sets \o p.ops ELSE sets
                   ret == IF KeyWritten(sets) THEN p.ret ELSE "Err"
               IN  /\ last_iteration' =
                          Some(Iteration(entry, Some(r), ops, Some(ret)))
                   /\ key_writes' =
                          [key_writes EXCEPT ![entry.n] = @ + SetExDone(ops)]
                   /\ phase' = [phase EXCEPT ![entry.n] = "stored"]
                   /\ loop_pc' = AfterStore(ret)
    /\ current' = None
    /\ pending' = None
    /\ UNCHANGED <<queue, enqueued, box_id_counter>>
    /\ UNCHANGED notLoopVars

NextLoop ==
    \/ Enqueue
    \/ BlpopOk
    \/ BlpopErr
    \/ Reconnected
    \/ ProcessJob
    \/ StoreOutcome

----------------------------------------------------------------------------
(* The cache of trusted binaries: compiler/mod.rs, runner/trusted.rs *)

(* the workers of one host that share the cache directory *)
CacheProcs == {1, 2}

(* checker sources of one problem id; g++ accepts all but the last *)
CheckerSources == {"v1", "v2", "broken"}
Compiles(s) == s # "broken"

(* checker_dir.join("checker"): the path depends on the problem id only *)
BinaryPath == <<"checker_", 1, "/checker">>

(* a binary file: the source it was built from, and whether the linker   *)
(* has finished writing it                                               *)
Binary(from, complete) == [from |-> from, complete |-> complete]

IdleCall == [st |-> "idle", source |-> "", need_compile |-> FALSE,
             ran_compiler |-> FALSE, building |-> "", ret |-> None]

IdleCache ==
    /\ cache_source = None
    /\ cache_binary = None
    /\ call = [p \in CacheProcs |-> IdleCall]
    /\ compiler_runs = 0

(* what the cache leaves alone *)
notCacheVars == <<judgeVars, boxIdVars, storeVars, workerVars, loopVars,
                  compareVars,
                  moreVars>>

PathReturned(binary) == [tag |-> "Ok", path |-> BinaryPath, binary |-> binary]
CallFailed == [tag |-> "Err"]

(* get_or_compile is entered, by any worker at any time *)
CacheCall(p) ==
    /\ call[p].st = "idle"
    /\ \E s \in CheckerSources :
         call' = [call EXCEPT ![p] = [IdleCall EXCEPT !.st = "check",
                                                      !.source = s]]
    /\ UNCHANGED <<cache_source, cache_binary, compiler_runs>>
    /\ UNCHANGED notCacheVars

(* get_or_compile is entered once no other call is in progress *)
CacheCallAfter(p) ==
    /\ \A q \in CacheProcs \ {p} : call[q].st \in {"idle", "returned"}
    /\ CacheCall(p)

(* need_compile: binary or source missing, or the cached source differs *)
NeedCompile(source_content) ==
    IF IsSome(cache_binary) /\ IsSome(cache_source)
    THEN Unwrap(cache_source) # source_content
    ELSE TRUE

(* create_dir_all and the existence checks; with nothing to compile the  *)
(* path is returned at once                                              *)
CacheCheck(p) ==
    /\ call[p].st = "check"
    /\ \/ call' = [call EXCEPT ![p].st = "returned",
                               ![p].ret = Some(CallFailed)]
       \/ IF NeedCompile(call[p].source)
          THEN call' = [call EXCEPT ![p].st = "write",
                                    ![p].need_compile = TRUE]
          ELSE call' = [call EXCEPT ![p].st = "returned",
                                    ![p].ret = Some(PathReturned(cache_binary))]
    /\ UNCHANGED <<cache_source, cache_binary, compiler_runs>>
    /\ UNCHANGED notCacheVars

(* tokio::fs::write(&source_path, source_content) *)
CacheWrite(p) ==
    /\ call[p].st = "write"
    /\ \/ /\ cache_source' = Some(call[p].source)
          /\ call' = [call EXCEPT ![p].st = "compile"]
       \/ /\ call' = [call EXCEPT ![p].st = "returned",
                                  ![p].ret = Some(CallFailed)]
          /\ UNCHANGED cache_source
    /\ UNCHANGED <<cache_binary, compiler_runs>>
    /\ UNCHANGED notCacheVars

(* g++ -o binary_path source_path: it reads the source file as it is     *)
(* now; a rejected source never reaches the linker and leaves the binary *)
(* path as it was, an accepted one has the linker create the binary and  *)
(* start writing it                                                      *)
CompilerRun(p) ==
    /\ call[p].st = "compile"
    /\ compiler_runs' = compiler_runs + 1
    /\ LET content == Unwrap(cache_source)
       IN  IF Compiles(content)
           THEN /\ cache_binary' = Some(Binary(content, FALSE))
                /\ call' = [call EXCEPT ![p].st = "link",
                                        ![p].ran_compiler = TRUE,
                                        ![p].building = content]
           ELSE /\ UNCHANGED cache_binary
                /\ call' = [call EXCEPT ![p].st = "returned",
                                        ![p].ran_compiler = TRUE,
                                        ![p].ret = Some(CallFailed)]
    /\ UNCHANGED cache_source
    /\ UNCHANGED notCacheVars

(* the linker finishes the binary, g++ exits with success and            *)
(* get_or_compile returns the path                                       *)
LinkerDone(p) ==
    /\ call[p].st = "link"
    /\ cache_binary' = Some(Binary(call[p].building, TRUE))
    /\ call' = [call EXCEPT ![p].st = "returned",
                            ![p].ret = Some(PathReturned(cache_binary'))]
    /\ UNCHANGED <<cache_source, compiler_runs>>
    /\ UNCHANGED notCacheVars

(* calls by the workers of a host, overlapping freely *)
NextCache ==
    \E p \in CacheProcs :
        \/ CacheCall(p)
        \/ CacheCheck(p)
        \/ CacheWrite(p)
        \/ CompilerRun(p)
        \/ LinkerDone(p)

(* calls one after the other *)
NextCacheSeq ==
    \E p \in CacheProcs :
        \/ CacheCallAfter(p)
        \/ CacheCheck(p)
        \/ CacheWrite(p)
        \/ CompilerRun(p)
        \/ LinkerDone(p)

----------------------------------------------------------------------------
(* compare_output on strings of every shape: judger.rs *)

MaxStringLen == 3

CompareAlphabet == {"a", "b", " ", "\t", "\r", "\n"}

(* the strings of at most MaxStringLen characters *)
CompareStrings == UNION { [1..n -> CompareAlphabet] : n \in 0..MaxStringLen }

IdleCompare ==
    /\ cmp_s = <<>>
    /\ cmp_out = None

(* compare_output applied to s and itself, to s and s followed by a      *)
(* newline, and to s followed by two spaces and a newline and s followed *)
(* by a newline: the three calls of the unit tests, for any s            *)
Compare ==
    /\ cmp_out = None
    /\ cmp_out' = Some([same |-> CompareOutput(cmp_s, cmp_s),
                        newline |-> CompareOutput(cmp_s, cmp_s \o <<"\n">>),
                        spaces |-> CompareOutput(cmp_s \o <<" ", " ", "\n">>,
                                                 cmp_s \o <<"\n">>)])
    /\ UNCHANGED cmp_s
    /\ UNCHANGED <<judgeVars, boxIdVars, storeVars, workerVars,
                   loopVars, cacheVars, moreVars>>

NextCompare == Compare

----------------------------------------------------------------------------
(* parse_meta and the status conversion of execute_sandboxed applied to   *)
(* meta files: engine/sandbox/meta.rs, engine/executer.rs                 *)

MaxMetaLines == 3

(* the lines a meta file may hold; "killed" stands for the keys the       *)
(* parser does not know                                                   *)
MetaFileLines ==
    { MetaLine("status", v) : v \in {"TO", "SG", "RE", "XX", "", "ZZ"} }
    \cup { MetaLine("exitcode", c) : c \in {0, 1} }
    \cup { MetaLine("exitsig", sig) : sig \in {9, 11} }
    \cup { MetaLine("cg-mem", m) : m \in {1024, 262144, 262145} }
    \cup { UnparsedLine("exitcode"), UnparsedLine("exitsig"),
           MetaLine("time", 10), MetaLine("killed", 1) }

(* meta files of at most MaxMetaLines lines, each key written once, in    *)
(* any order                                                              *)
MetaFiles ==
    { f \in UNION { [1..n -> MetaFileLines] : n \in 0..MaxMetaLines } :
        \A i, j \in 1..Len(f) : f[i].key = f[j].key => i = j }

MetaMemoryLimits == {256}

IdleMeta ==
    /\ meta_lines = <<>>
    /\ meta_memory_mb = 0
    /\ meta_out = None

(* isolate_box.run reads the meta file, execute_sandboxed converts it *)
ParseAndConvert ==
    /\ meta_out = None
    /\ meta_out' = Some([meta |-> ParseMeta(meta_lines),
                         status |-> ConvertStatus(ParseMeta(meta_lines),
                                                  meta_memory_mb)])
    /\ UNCHANGED <<meta_lines, meta_memory_mb>>
    /\ UNCHANGED <<judgeVars, boxIdVars, storeVars, workerVars, loopVars,
                   cacheVars, compareVars, validateVars, startupVars,
                   lateVars>>

NextMeta == ParseAndConvert

----------------------------------------------------------------------------
(* The cgroup check of main and of execute_sandboxed: main.rs,            *)
(* sandbox/isolate_box.rs, engine/executer.rs                             *)

MaxDequeues == 4
MaxExecutions == 5

IdleStartup ==
    /\ main_pc = "idle"
    /\ USE_CGROUPS = None
    /\ host_cgroups = TRUE
    /\ probe_count = 0
    /\ dequeued = 0
    /\ executed = 0
    /\ cgroup_bails = 0

notStartupVars == <<judgeVars, boxIdVars, storeVars, workerVars, loopVars,
                    cacheVars, compareVars, validateVars, metaVars, lateVars>>

(* an is_cgroups_available that would probe on every call *)
IsCgroupsAvailable_Uncached(cache, host) ==
    [value |-> host, cache |-> Some(host), probed |-> TRUE]

(* is_cgroups_available: the cached value if there is one, otherwise the  *)
(* answer of `isolate --box-id 99 --cg --init`, which is then cached;     *)
(* OnceLock::set keeps a value that is already there                      *)
IsCgroupsAvailable(cache, host) ==
    IF IsSome(cache)
    THEN [value |-> Unwrap(cache), cache |-> cache, probed |-> FALSE]
    ELSE [value |-> host, cache |-> Some(host), probed |-> TRUE]

(* main up to the lease: a Redis failure returns Err before the probe *)
ConnectAndClaim ==
    /\ main_pc = "start"
    /\ main_pc' \in {"claimed", "exited"}
    /\ UNCHANGED <<USE_CGROUPS, host_cgroups, probe_count, dequeued, executed,
                   cgroup_bails>>
    /\ UNCHANGED notStartupVars

(* sandbox::ensure_cgroups_available().await? *)
EnsureCgroupsAvailable ==
    /\ main_pc = "claimed"
    /\ LET r == IsCgroupsAvailable(USE_CGROUPS, host_cgroups) IN
       /\ USE_CGROUPS' = r.cache
       /\ probe_count' = probe_count + (IF r.probed THEN 1 ELSE 0)
       /\ main_pc' = IF r.value THEN "checked" ELSE "exited"
    /\ UNCHANGED <<host_cgroups, dequeued, executed, cgroup_bails>>
    /\ UNCHANGED notStartupVars

(* StorageClient::from_env().await? and the managers, up to the loop *)
InitStorage ==
    /\ main_pc = "checked"
    /\ main_pc' \in {"loop", "exited"}
    /\ UNCHANGED <<USE_CGROUPS, host_cgroups, probe_count, dequeued, executed,
                   cgroup_bails>>
    /\ UNCHANGED notStartupVars

(* conn.blpop(QUEUE_NAME, 0.0) gives a job *)
Dequeue ==
    /\ main_pc = "loop"
    /\ dequeued < MaxDequeues
    /\ dequeued' = dequeued + 1
    /\ main_pc' = "job"
    /\ UNCHANGED <<USE_CGROUPS, host_cgroups, probe_count, executed,
                   cgroup_bails>>
    /\ UNCHANGED notStartupVars

(* execute_sandboxed called while the job is processed: the cgroup check  *)
(* at its head, then the run                                              *)
ExecuteSandboxed ==
    /\ main_pc = "job"
    /\ executed < MaxExecutions
    /\ executed' = executed + 1
    /\ LET r == IsCgroupsAvailable(USE_CGROUPS, host_cgroups) IN
       /\ USE_CGROUPS' = r.cache
       /\ probe_count' = probe_count + (IF r.probed THEN 1 ELSE 0)
       /\ cgroup_bails' = cgroup_bails + (IF r.value THEN 0 ELSE 1)
    /\ UNCHANGED <<main_pc, host_cgroups, dequeued>>
    /\ UNCHANGED notStartupVars

(* the job is done and its result stored: back to BLPOP *)
JobProcessed ==
    /\ main_pc = "job"
    /\ main_pc' = "loop"
    /\ UNCHANGED <<USE_CGROUPS, host_cgroups, probe_count, dequeued, executed,
                   cgroup_bails>>
    /\ UNCHANGED notStartupVars

(* the host changes under the worker: cgroups stop or start working *)
HostChanges ==
    /\ main_pc \notin {"idle", "exited"}
    /\ host_cgroups' = ~host_cgroups
    /\ UNCHANGED <<main_pc, USE_CGROUPS, probe_count, dequeued, executed,
                   cgroup_bails>>
    /\ UNCHANGED notStartupVars

NextStartup ==
    \/ ConnectAndClaim
    \/ EnsureCgroupsAvailable
    \/ InitStorage
    \/ Dequeue
    \/ ExecuteSandboxed
    \/ JobProcessed
    \/ HostChanges

----------------------------------------------------------------------------
(* process_validate_job: validator.rs *)

MaxInputs == 3

(* TestcaseInput ids; the paths play no part *)
InputIds == <<41, 42, 43, 44, 45>>

(* ValidateJob *)
ValidateJobs ==
    { [problem_id |-> 7, testcase_inputs |-> SubSeq(InputIds, 1, n)] :
        n \in 0..MaxInputs }

IdleValidate ==
    /\ validate_pc = "idle"
    /\ validate_job = None
    /\ validation_results = <<>>
    /\ all_valid = TRUE
    /\ validate_ret = None

notValidateVars == <<judgeVars, boxIdVars, storeVars, workerVars, loopVars,
                     cacheVars, compareVars, metaVars, startupVars,
                     lateVars>>

(* TestcaseValidationResult *)
ValidationEntry(id, valid, message) ==
    [testcase_id |-> id, valid |-> valid, message |-> message]

(* ValidateResult *)
ValidateResult(problem_id, success, results, error_message) ==
    [problem_id |-> problem_id,
     success |-> success,
     testcase_results |-> results,
     error_message |-> error_message]

(* what run_validator gives on one input: Ok((valid, message)) with valid *)
(* the test exit_code() == 0 and message the trimmed stderr if any, or    *)
(* Err when the input cannot be read back or the run cannot be started    *)
ValidatorExitCodes == {0, 3, 1}

RunValidatorOutcomes ==
    { [ok |-> TRUE, valid |-> (c = 0), message |-> m] :
        c \in ValidatorExitCodes, m \in {None, Some("stderr")} }
    \cup { [ok |-> FALSE, valid |-> FALSE,
            message |-> Some("Validator error: Failed to run validator")] }

(* `for tc in &job.testcase_inputs`: the next input or the end *)
ValidateLoopHead(done) ==
    IF done < Len(Unwrap(validate_job).testcase_inputs)
    THEN "download" ELSE "return"

(* an all_valid that would remember the last entry only *)
NextAllValid_Last(all, valid) == valid

(* `if !valid { all_valid = false; }` *)
NextAllValid(all, valid) == all /\ valid

(* get_validator and tempfile::tempdir()? *)
GetValidator ==
    /\ validate_pc = "get_validator"
    /\ \/ /\ validate_pc' = ValidateLoopHead(0)
          /\ UNCHANGED validate_ret
       \/ /\ validate_ret' =
               Some([ok |-> TRUE,
                     value |-> ValidateResult(Unwrap(validate_job).problem_id,
                                              FALSE, <<>>,
                                              Some("Failed to compile validator"))])
          /\ validate_pc' = "done"
       \/ /\ validate_ret' = Some([ok |-> FALSE, value |-> "tempdir"])
          /\ validate_pc' = "done"
    /\ UNCHANGED <<validate_job, validation_results, all_valid>>
    /\ UNCHANGED notValidateVars

(* storage.download_string(&tc.input_path) *)
ValidateDownload ==
    /\ validate_pc = "download"
    /\ LET idx == Len(validation_results) + 1
           id == Unwrap(validate_job).testcase_inputs[idx]
       IN  \/ /\ validate_pc' = "write"
              /\ UNCHANGED <<validation_results, all_valid>>
           \/ /\ validation_results' =
                    Append(validation_results,
                           ValidationEntry(id, FALSE,
                                           Some("Failed to download input")))
              /\ all_valid' = FALSE
              /\ validate_pc' = ValidateLoopHead(idx)
    /\ UNCHANGED <<validate_job, validate_ret>>
    /\ UNCHANGED notValidateVars

(* tokio::fs::write(&input_path, &input_content).await? *)
ValidateWrite ==
    /\ validate_pc = "write"
    /\ \/ /\ validate_pc' = "run"
          /\ UNCHANGED validate_ret
       \/ /\ validate_ret' = Some([ok |-> FALSE, value |-> "write"])
          /\ validate_pc' = "done"
    /\ UNCHANGED <<validate_job, validation_results, all_valid>>
    /\ UNCHANGED notValidateVars

(* match run_validator(..) and the push of the entry *)
ValidateRun ==
    /\ validate_pc = "run"
    /\ LET idx == Len(validation_results) + 1
           id == Unwrap(validate_job).testcase_inputs[idx]
       IN  \E o \in RunValidatorOutcomes :
             /\ validation_results' =
                   Append(validation_results,
                          ValidationEntry(id, o.valid, o.message))
             /\ all_valid' = (IF o.ok THEN NextAllValid(all_valid, o.valid)
                              ELSE FALSE)
             /\ validate_pc' = ValidateLoopHead(idx)
    /\ UNCHANGED <<validate_job, validate_ret>>
    /\ UNCHANGED notValidateVars

(* the Ok(ValidateResult { .. }) that ends the function *)
ValidateReturn ==
    /\ validate_pc = "return"
    /\ validate_ret' =
         Some([ok |-> TRUE,
               value |-> ValidateResult(Unwrap(validate_job).problem_id,
                                        all_valid, validation_results, None)])
    /\ validate_pc' = "done"
    /\ UNCHANGED <<validate_job, validation_results, all_valid>>
    /\ UNCHANGED notValidateVars

NextValidate ==
    \/ GetValidator
    \/ ValidateDownload
    \/ ValidateWrite
    \/ ValidateRun
    \/ ValidateReturn

----------------------------------------------------------------------------
(* process_playground_job, the bundle files: jobs/playground/mod.rs *)

MaxBundleFiles == 3

(* a path: absolute or not, and its components *)
Path(absolute, parts) == [absolute |-> absolute, parts |-> parts]

(* PlaygroundFile.path values a job may carry *)
BundlePaths ==
    { Path(FALSE, <<"main.py">>),
      Path(FALSE, <<"src", "main.c">>),
      Path(FALSE, <<".", "b.txt">>),
      Path(FALSE, <<"..", "evil">>),
      Path(FALSE, <<"src", "..", "..", "evil">>),
      Path(TRUE, <<"etc", "evil">>) }

(* the directory tempfile::tempdir() made, as components from the root *)
TempDir == <<"tmp", "job">>

(* Path::join: an absolute argument replaces the base *)
PathJoin(base, path) ==
    IF path.absolute THEN path.parts ELSE base \o path.parts

(* the location the file system resolves a path to: "." stays, ".." goes  *)
(* to the parent, the parent of the root is the root                      *)
RECURSIVE Resolve(_, _)
Resolve(parts, at) ==
    IF parts = <<>> THEN at
    ELSE IF Head(parts) = "." THEN Resolve(Tail(parts), at)
    ELSE IF Head(parts) = ".."
         THEN Resolve(Tail(parts),
                      IF at = <<>> THEN at ELSE SubSeq(at, 1, Len(at) - 1))
    ELSE Resolve(Tail(parts), Append(at, Head(parts)))

(* a location strictly below a directory *)
IsInside(location, dir) ==
    /\ Len(location) > Len(dir)
    /\ SubSeq(location, 1, Len(dir)) = dir

IdlePlayground ==
    /\ pg_pc = "idle"
    /\ pg_files = <<>>
    /\ pg_written = <<>>

notPlaygroundVars == <<judgeVars, boxIdVars, storeVars, workerVars, loopVars,
                       cacheVars, compareVars, validateVars, metaVars,
                       startupVars,
    limitVars,
    reuseVars,
    popJobVars,
    comparePairsVars,
    consumersVars>>

(* `for file in &job.files`, one turn: the join, create_dir_all of the    *)
(* parent, the base64 decoding and the write                              *)
WriteBundleFile ==
    /\ pg_pc = "files"
    /\ Len(pg_written) < Len(pg_files)
    /\ LET file_path == PathJoin(TempDir, pg_files[Len(pg_written) + 1])
       IN  \/ /\ pg_written' = Append(pg_written, Resolve(file_path, <<>>))
              /\ UNCHANGED pg_pc
           \/ /\ pg_pc' = "failed"          \* the decoding or the write fails
              /\ UNCHANGED pg_written
    /\ UNCHANGED pg_files
    /\ UNCHANGED notPlaygroundVars

(* the loop is over: determine_run_type and the run *)
BundleWritten ==
    /\ pg_pc = "files"
    /\ Len(pg_written) = Len(pg_files)
    /\ pg_pc' = "run"
    /\ UNCHANGED <<pg_files, pg_written>>
    /\ UNCHANGED notPlaygroundVars

NextPlayground ==
    \/ WriteBundleFile
    \/ BundleWritten

----------------------------------------------------------------------------
(* The limits of a run, over the whole of u32: languages.rs, judger.rs *)

(* u32 addition, modulo 2^32, with its overflow flag *)
U32Add(a, b) ==
    LET lo == a.lo + b.lo
        hi == a.hi + b.hi + (lo \div Limb)
    IN  [value |-> U32(hi % Limb, lo % Limb), overflow |-> hi >= Limb]

(* LanguageConfig::calculate_time_limit on a u32: Some(limit), or None *)
(* where the arithmetic overflows in a build with overflow checks,     *)
(* which panics                                                        *)
CalculateTimeLimitU32(b, time_limit, base_time_ms) ==
    IF IsSome(time_limit)
    THEN LET multiplier == Unwrap(time_limit)[1]
             bonus_seconds == Unwrap(time_limit)[2]
             product == U32MulSmall(base_time_ms, multiplier)
             bonus == U32MulSmall(U32(0, bonus_seconds), 1000)
             sum == U32Add(product.value, bonus.value)
         IN  IF b = "debug"
                /\ (product.overflow \/ bonus.overflow \/ sum.overflow)
             THEN None
             ELSE Some(sum.value)
    ELSE Some(base_time_ms)

(* LanguageConfig::calculate_memory_limit on a u32 *)
CalculateMemoryLimitU32(b, memory_limit, base_memory_mb) ==
    IF IsSome(memory_limit)
    THEN LET multiplier == Unwrap(memory_limit)[1]
             bonus_mb == Unwrap(memory_limit)[2]
             product == U32MulSmall(base_memory_mb, multiplier)
             sum == U32Add(product.value, U32(0, bonus_mb))
         IN  IF b = "debug" /\ (product.overflow \/ sum.overflow)
             THEN None
             ELSE Some(sum.value)
    ELSE Some(base_memory_mb)

(* the (multiplier, bonus) pairs a language descriptor may carry *)
LimitPairs == { None, Some(<<1, 0>>), Some(<<3, 2>>), Some(<<2, 32>>) }

(* base limits of a job: usual ones, and ones near the end of u32 *)
TimeBases == { U32(0, 1000), U32(21845, 21845), U32(32768, 0), U32Max }
MemoryBases == { U32(0, 256), U32(32767, 65520), U32Max }

IdleLimits ==
    /\ lim_pc = "idle"
    /\ lim_build = "release"
    /\ lim_job = None
    /\ lim_config = None
    /\ lim_out = None

notLimitsVars == <<judgeVars, boxIdVars, storeVars, workerVars, loopVars,
                  cacheVars, compareVars, validateVars, metaVars,
                  startupVars, playgroundVars,
    reuseVars,
    popJobVars,
    comparePairsVars,
    consumersVars>>

(* adjusted_time_limit of process_judge_job *)
AdjustedTimeLimitU32 ==
    IF Unwrap(lim_job).ignore_time_limit_bonus
    THEN Some(Unwrap(lim_job).time_limit)
    ELSE CalculateTimeLimitU32(lim_build, Unwrap(lim_config).time_limit,
                               Unwrap(lim_job).time_limit)

(* adjusted_memory_limit of process_judge_job *)
AdjustedMemoryLimitU32 ==
    IF Unwrap(lim_job).ignore_memory_limit_bonus
    THEN Some(Unwrap(lim_job).memory_limit)
    ELSE CalculateMemoryLimitU32(lim_build, Unwrap(lim_config).memory_limit,
                                 Unwrap(lim_job).memory_limit)

(* both limits computed, the ExecutionLimits of the run *)
LimitsComputed ==
    /\ lim_pc = "limits"
    /\ IsSome(AdjustedTimeLimitU32)
    /\ IsSome(AdjustedMemoryLimitU32)
    /\ lim_out' = Some([time_ms |-> Unwrap(AdjustedTimeLimitU32),
                        memory_mb |-> Unwrap(AdjustedMemoryLimitU32)])
    /\ lim_pc' = "run"
    /\ UNCHANGED <<lim_build, lim_job, lim_config>>
    /\ UNCHANGED notLimitsVars

(* the arithmetic overflows under overflow checks: the task panics *)
LimitsPanic ==
    /\ lim_pc = "limits"
    /\ AdjustedTimeLimitU32 = None \/ AdjustedMemoryLimitU32 = None
    /\ lim_pc' = "panicked"
    /\ UNCHANGED <<lim_build, lim_job, lim_config, lim_out>>
    /\ UNCHANGED notLimitsVars

NextLimits ==
    \/ LimitsComputed
    \/ LimitsPanic

----------------------------------------------------------------------------
(* One worker's boxes over many executions: engine/executer.rs,         *)
(* sandbox/isolate_box.rs                                               *)

MaxReuseRuns == 3

(* an IsolateBox::new that goes straight to `isolate --init` *)
NewCleanup_Skipped(initialised, id) == initialised

(* IsolateBox::new, its first command: `isolate --box-id id --cleanup`  *)
(* removes the box of that id, if there is one                          *)
NewCleanup(initialised, id) == initialised \ {id}

(* the boxes a worker whose counter stands at c may have left behind:   *)
(* ids it allocated before, each by an execution that returned early    *)
LeftBehind(w, c) ==
    IF c = U32(0, 0) THEN {} ELSE { w * BoxRange, w * BoxRange + 1 }

IdleReuse ==
    /\ bx_pc = "idle"
    /\ bx_worker = 0
    /\ bx_counter = U32(0, 0)
    /\ bx_id = None
    /\ bx_boxes = {}
    /\ bx_reclaimed = {}
    /\ bx_runs = 0

notReuseVars == <<judgeVars, boxIdVars, storeVars, workerVars, loopVars,
                  cacheVars, compareVars, validateVars, metaVars,
                  startupVars, playgroundVars, limitVars,
    popJobVars,
    comparePairsVars,
    consumersVars>>

(* execute_sandboxed up to next_box_id: fetch_add on the counter *)
ReuseNextBoxId ==
    /\ bx_pc = "idle"
    /\ bx_runs < MaxReuseRuns
    /\ bx_id' = Some(NextBoxId(bx_worker, bx_counter))
    /\ bx_counter' = WrappingInc(bx_counter)
    /\ bx_runs' = bx_runs + 1
    /\ bx_pc' = "new"
    /\ UNCHANGED <<bx_worker, bx_boxes, bx_reclaimed>>
    /\ UNCHANGED notReuseVars

(* IsolateBox::new, the cleanup of whatever box has that id *)
ReuseNewCleanup ==
    /\ bx_pc = "new"
    /\ bx_boxes' = NewCleanup(bx_boxes, Unwrap(bx_id))
    /\ bx_reclaimed' = bx_reclaimed \cup (bx_boxes \cap {Unwrap(bx_id)})
    /\ bx_pc' = "init"
    /\ UNCHANGED <<bx_worker, bx_counter, bx_id, bx_runs>>
    /\ UNCHANGED notReuseVars

(* IsolateBox::new, `isolate --cg --init`: the box exists from here on, *)
(* or the command fails and execute_sandboxed returns the error         *)
ReuseNewInit ==
    /\ bx_pc = "init"
    /\ \/ /\ bx_boxes' = bx_boxes \cup {Unwrap(bx_id)}
          /\ bx_pc' = "inited"
       \/ /\ bx_pc' = "idle"
          /\ UNCHANGED bx_boxes
    /\ UNCHANGED <<bx_worker, bx_counter, bx_id, bx_reclaimed, bx_runs>>
    /\ UNCHANGED notReuseVars

(* copy_dir_in, the stdin file, the run and the stage-out: all succeed, *)
(* or one error is returned with `?` and the box stays                  *)
ReuseRun ==
    /\ bx_pc = "inited"
    /\ bx_pc' \in {"ran", "idle"}
    /\ UNCHANGED <<bx_worker, bx_counter, bx_id, bx_boxes, bx_reclaimed, bx_runs>>
    /\ UNCHANGED notReuseVars

(* isolate_box.cleanup().await? and the return: the box is removed, or  *)
(* the command fails and the error is returned                          *)
ReuseCleanup ==
    /\ bx_pc = "ran"
    /\ \/ bx_boxes' = bx_boxes \ {Unwrap(bx_id)}
       \/ UNCHANGED bx_boxes
    /\ bx_pc' = "idle"
    /\ UNCHANGED <<bx_worker, bx_counter, bx_id, bx_reclaimed, bx_runs>>
    /\ UNCHANGED notReuseVars

NextReuse ==
    \/ ReuseNextBoxId
    \/ ReuseNewCleanup
    \/ ReuseNewInit
    \/ ReuseRun
    \/ ReuseCleanup

----------------------------------------------------------------------------
(* RedisManager::pop_job, one call: redis_manager.rs *)

MaxPopEntries == 3
MaxOutages == 2

(* a queue entry: well formed (it deserialises to a WorkerJob) or not *)
QueueEntry(id, well_formed) == [id |-> id, well_formed |-> well_formed]

(* a parse that takes every entry for a job *)
ParseJob_Lenient(entry) == Some(entry)

(* serde_json::from_str::<WorkerJob>: Some(job), or None for an error *)
ParseJob(entry) == IF entry.well_formed THEN Some(entry) ELSE None

IdlePopJob ==
    /\ pj_pc = "idle"
    /\ pj_up = TRUE
    /\ pj_conn = TRUE
    /\ pj_queue = <<>>
    /\ pj_pushed = <<>>
    /\ pj_ret = None
    /\ pj_failures = 0
    /\ pj_discarded = 0
    /\ pj_outages = 0

notPopJobVars == <<judgeVars, boxIdVars, storeVars, workerVars, loopVars,
                   cacheVars, compareVars, validateVars, metaVars,
                   startupVars, playgroundVars, limitVars, reuseVars,
    comparePairsVars,
    consumersVars>>

(* BLPOP fails on a broken connection: the warning, then reconnect *)
BlpopFailed ==
    /\ pj_pc = "blpop"
    /\ ~pj_conn
    /\ pj_pc' = "reconnect"
    /\ pj_failures' = pj_failures + 1
    /\ UNCHANGED <<pj_up, pj_conn, pj_queue, pj_pushed, pj_ret, pj_discarded,
                   pj_outages>>
    /\ UNCHANGED notPopJobVars

(* reconnect, get_connection_with_retry: an attempt that fails is      *)
(* followed by a sleep of 3 s and another attempt, one that succeeds   *)
(* replaces the connection; no error leaves the loop                   *)
Reconnect ==
    /\ pj_pc = "reconnect"
    /\ pj_up
    /\ pj_conn' = TRUE
    /\ pj_pc' = "blpop"
    /\ UNCHANGED <<pj_up, pj_queue, pj_pushed, pj_ret, pj_failures,
                   pj_discarded, pj_outages>>
    /\ UNCHANGED notPopJobVars

(* BLPOP answers with the head of the queue, which leaves the queue;   *)
(* the entry is parsed: a job is returned, anything else is logged and *)
(* the loop goes on. With timeout 0 an empty queue blocks.             *)
BlpopEntry ==
    /\ pj_pc = "blpop"
    /\ pj_conn
    /\ pj_queue # <<>>
    /\ pj_queue' = Tail(pj_queue)
    /\ LET parsed == ParseJob(Head(pj_queue)) IN
       IF IsSome(parsed)
       THEN /\ pj_ret' = Some([ok |-> TRUE, job |-> Unwrap(parsed)])
            /\ pj_pc' = "returned"
            /\ UNCHANGED pj_discarded
       ELSE /\ pj_discarded' = pj_discarded + 1
            /\ UNCHANGED <<pj_pc, pj_ret>>
    /\ UNCHANGED <<pj_up, pj_conn, pj_pushed, pj_failures, pj_outages>>
    /\ UNCHANGED notPopJobVars

(* the steps of pop_job *)
PopJobStep == BlpopFailed \/ Reconnect \/ BlpopEntry

(* Redis becomes unreachable: the connection of the worker breaks *)
RedisDown ==
    /\ pj_up
    /\ pj_outages < MaxOutages
    /\ pj_up' = FALSE
    /\ pj_conn' = FALSE
    /\ pj_outages' = pj_outages + 1
    /\ UNCHANGED <<pj_pc, pj_queue, pj_pushed, pj_ret, pj_failures, pj_discarded>>
    /\ UNCHANGED notPopJobVars

(* Redis is reachable again; the old connection stays broken *)
RedisUp ==
    /\ ~pj_up
    /\ pj_up' = TRUE
    /\ UNCHANGED <<pj_pc, pj_conn, pj_queue, pj_pushed, pj_ret, pj_failures,
                   pj_discarded, pj_outages>>
    /\ UNCHANGED notPopJobVars

(* a producer pushes an entry, well formed or not, at the tail *)
Push ==
    /\ pj_up
    /\ Len(pj_pushed) < MaxPopEntries
    /\ \E well_formed \in BOOLEAN :
         LET entry == QueueEntry(Len(pj_pushed) + 1, well_formed) IN
         /\ pj_queue' = Append(pj_queue, entry)
         /\ pj_pushed' = Append(pj_pushed, entry)
    /\ UNCHANGED <<pj_pc, pj_up, pj_conn, pj_ret, pj_failures, pj_discarded,
                   pj_outages>>
    /\ UNCHANGED notPopJobVars

NextPopJob ==
    \/ BlpopFailed
    \/ Reconnect
    \/ BlpopEntry
    \/ RedisDown
    \/ RedisUp
    \/ Push

----------------------------------------------------------------------------
(* compare_output on pairs of outputs: judger.rs *)

MaxPairLen == 4

PairAlphabet == {"a", " ", "\r", "\n"}

(* the outputs of at most MaxPairLen characters *)
PairStrings == UNION { [1..n -> PairAlphabet] : n \in 0..MaxPairLen }

IdleComparePairs ==
    /\ cp_actual = <<>>
    /\ cp_expected = <<>>
    /\ cp_out = None

notComparePairsVars == <<judgeVars, boxIdVars, storeVars, workerVars, loopVars,
                         cacheVars, compareVars, validateVars, metaVars,
                         startupVars, playgroundVars, limitVars, reuseVars,
                         popJobVars,
    consumersVars>>

(* compare_output(actual, expected), and the call with the arguments    *)
(* exchanged                                                            *)
ComparePair ==
    /\ cp_out = None
    /\ cp_out' = Some([equal |-> CompareOutput(cp_actual, cp_expected),
                       exchanged |-> CompareOutput(cp_expected, cp_actual)])
    /\ UNCHANGED <<cp_actual, cp_expected>>
    /\ UNCHANGED notComparePairsVars

NextComparePairs == ComparePair

----------------------------------------------------------------------------
(* Several workers on one queue: redis_manager.rs, main.rs *)

MaxQueueEntries == 3

(* the worker processes that consume judge:queue *)
Consumers == {1, 2}

QueueEntryIds == 1..MaxQueueEntries

(* a pop that would leave the entry on the list *)
AfterBlpop_EntryStays(entries) == entries

(* BLPOP on judge:queue: the list without the head it has answered with *)
AfterBlpop(entries) == Tail(entries)

IdleConsumers ==
    /\ mq_queue = <<>>
    /\ mq_pushed = 0
    /\ mq_worker = [w \in Consumers |-> [st |-> "idle", entry |-> None]]
    /\ mq_delivered = [e \in QueueEntryIds |-> {}]
    /\ mq_processed = [e \in QueueEntryIds |-> 0]
    /\ mq_stored = [e \in QueueEntryIds |-> 0]
    /\ mq_dropped = {}

notConsumersVars == <<judgeVars, boxIdVars, storeVars, workerVars, loopVars,
                      cacheVars, compareVars, validateVars, metaVars,
                      startupVars, playgroundVars, limitVars, reuseVars,
                      popJobVars, comparePairsVars>>

(* the web application pushes a job at the tail of judge:queue *)
ProducerPush ==
    /\ mq_pushed < MaxQueueEntries
    /\ mq_pushed' = mq_pushed + 1
    /\ mq_queue' = Append(mq_queue, mq_pushed + 1)
    /\ UNCHANGED <<mq_worker, mq_delivered, mq_processed, mq_stored, mq_dropped>>
    /\ UNCHANGED notConsumersVars

(* pop_job of worker w: BLPOP answers with the head, which Redis removes *)
(* from the list in the same command, and the job is returned           *)
ConsumerBlpop(w) ==
    /\ mq_worker[w].st = "blpop"
    /\ mq_queue # <<>>
    /\ LET e == Head(mq_queue) IN
       /\ mq_queue' = AfterBlpop(mq_queue)
       /\ mq_worker' = [mq_worker EXCEPT ![w] = [st |-> "process", entry |-> Some(e)]]
       /\ mq_delivered' = [mq_delivered EXCEPT ![e] = @ \cup {w}]
    /\ UNCHANGED <<mq_pushed, mq_processed, mq_stored, mq_dropped>>
    /\ UNCHANGED notConsumersVars

(* the arm of the main loop for the job: process_*_job has returned *)
ConsumerProcess(w) ==
    /\ mq_worker[w].st = "process"
    /\ mq_worker' = [mq_worker EXCEPT ![w].st = "store"]
    /\ mq_processed' = [mq_processed EXCEPT ![Unwrap(mq_worker[w].entry)] = @ + 1]
    /\ UNCHANGED <<mq_queue, mq_pushed, mq_delivered, mq_stored, mq_dropped>>
    /\ UNCHANGED notConsumersVars

(* the store of the result, or of the error result; a store that fails  *)
(* is logged; the loop then goes back to BLPOP                          *)
ConsumerStore(w) ==
    /\ mq_worker[w].st = "store"
    /\ \/ mq_stored' = [mq_stored EXCEPT ![Unwrap(mq_worker[w].entry)] = @ + 1]
       \/ UNCHANGED mq_stored
    /\ mq_worker' = [mq_worker EXCEPT ![w] = [st |-> "blpop", entry |-> None]]
    /\ UNCHANGED <<mq_queue, mq_pushed, mq_delivered, mq_processed, mq_dropped>>
    /\ UNCHANGED notConsumersVars

(* the worker process stops (a kill, a panic, a power cut) wherever it  *)
(* stands; the job it had taken goes with it                            *)
ConsumerStops(w) ==
    /\ mq_worker[w].st \in {"blpop", "process", "store"}
    /\ mq_worker' = [mq_worker EXCEPT ![w].st = "stopped"]
    /\ mq_dropped' = mq_dropped \cup mq_worker[w].entry
    /\ UNCHANGED <<mq_queue, mq_pushed, mq_delivered, mq_processed, mq_stored>>
    /\ UNCHANGED notConsumersVars

NextConsumers ==
    \/ ProducerPush
    \/ \E w \in Consumers : ConsumerBlpop(w)
    \/ \E w \in Consumers : ConsumerProcess(w)
    \/ \E w \in Consumers : ConsumerStore(w)
    \/ \E w \in Consumers : ConsumerStops(w)

----------------------------------------------------------------------------
(* Specifications: each part of the worker on its own *)

(* the parts a specification does not exercise stay as constructed *)
IdleLate == IdlePlayground /\ IdleLimits /\ IdleReuse /\ IdlePopJob /\ IdleComparePairs /\ IdleConsumers

IdleMore == IdleValidate /\ IdleMeta /\ IdleStartup /\ IdleLate

IdleParts == IdleLoop /\ IdleCache /\ IdleCompare /\ IdleMore

(* the judge pipeline *)
Init == InitJudge /\ IdleBoxIds /\ IdleStore /\ IdleWorkers /\ IdleParts

Spec == Init /\ [][Next]_vars

(* a worker that has already handled some number of operations *)
InitBoxIds ==
    /\ IdleParts
    /\ InitJudge
    /\ IdleStore
    /\ IdleWorkers
    /\ build \in {"release", "debug"}
    /\ worker_id \in 0..(MAX_WORKERS - 1)
    /\ BOX_ID_COUNTER \in CounterStarts
    /\ box_id_counter \in CounterStarts
    /\ allocated = {}
    /\ allocations = 0

SpecBoxIds == InitBoxIds /\ [][NextBoxIds]_vars

(* worker processes starting while the lease keys are absent, or all    *)
(* still held by a deployment that has just been stopped                *)
InitLeases ==
    /\ IdleParts
    /\ InitJudge
    /\ IdleBoxIds
    /\ IdleStore
    /\ lease \in { [i \in WorkerIds |-> 0], [i \in WorkerIds |-> LeaseTicks] }
    /\ proc = [p \in Procs |-> [st |-> "start", try_id |-> 0, worker_id |-> None]]
    /\ hb_due = [p \in Procs |-> FALSE]
    /\ exec = [p \in Procs |-> IdleExec]
    /\ counters = [p \in Procs |-> [executer |-> U32(0, 0), main |-> U32(0, 0)]]
    /\ boxes = {}
    /\ box_ops = {}

SpecLeases == InitLeases /\ [][NextLeases]_vars

SpecLeasesRefreshed == InitLeases /\ [][NextLeasesRefreshed]_vars

(* the worker processes of one host, each holding its own worker index, *)
(* from the cgroup probe on                                             *)
InitBoxes ==
    /\ IdleParts
    /\ InitJudge
    /\ IdleBoxIds
    /\ IdleStore
    /\ \E ids \in [Procs -> WorkerIds] :
         /\ \A p, q \in Procs : p # q => ids[p] # ids[q]
         /\ proc = [p \in Procs |->
                      [st |-> "claimed", try_id |-> 0, worker_id |-> Some(ids[p])]]
         /\ lease = [i \in WorkerIds |->
                       IF \E p \in Procs : ids[p] = i THEN LeaseTicks ELSE 0]
    /\ hb_due = [p \in Procs |-> FALSE]
    /\ exec = [p \in Procs |-> IdleExec]
    /\ counters = [p \in Procs |-> [executer |-> U32(0, 0), main |-> U32(0, 0)]]
    /\ boxes = {}
    /\ box_ops = {}

SpecBoxes == InitBoxes /\ [][NextBoxes]_vars

(* result delivery *)
InitStore == InitJudge /\ IdleBoxIds /\ IdleStore /\ IdleWorkers /\ IdleParts

SpecStore == InitStore /\ [][NextStore]_vars

(* the main loop of one worker, fresh or after many jobs, in either build *)
InitLoop ==
    /\ InitJudge
    /\ IdleStore
    /\ IdleWorkers
    /\ IdleLoop
    /\ IdleCache
    /\ IdleCompare
    /\ IdleMore
    /\ build \in {"release", "debug"}
    /\ worker_id = 0
    /\ BOX_ID_COUNTER = U32(0, 0)
    /\ box_id_counter \in LoopCounterStarts
    /\ allocated = {}
    /\ allocations = 0

SpecLoop == InitLoop /\ [][NextLoop]_vars

(* the cache of one problem id: empty, or holding what an earlier call  *)
(* built from a source that compiles                                    *)
InitCache ==
    /\ InitJudge
    /\ IdleBoxIds
    /\ IdleStore
    /\ IdleWorkers
    /\ IdleLoop
    /\ IdleCompare
    /\ IdleMore
    /\ \/ cache_source = None /\ cache_binary = None
       \/ \E s \in { x \in CheckerSources : Compiles(x) } :
            cache_source = Some(s) /\ cache_binary = Some(Binary(s, TRUE))
    /\ call = [p \in CacheProcs |-> IdleCall]
    /\ compiler_runs = 0

SpecCache == InitCache /\ [][NextCache]_vars

SpecCacheSeq == InitCache /\ [][NextCacheSeq]_vars

(* compare_output handed any short string *)
InitCompare ==
    /\ InitJudge
    /\ IdleBoxIds
    /\ IdleStore
    /\ IdleWorkers
    /\ IdleLoop
    /\ IdleCache
    /\ IdleMore
    /\ cmp_s \in CompareStrings
    /\ cmp_out = None

SpecCompare == InitCompare /\ [][NextCompare]_vars

(* process_playground_job called with a bundle of up to MaxBundleFiles  *)
(* files                                                                 *)
InitPlayground ==
    /\ InitJudge
    /\ IdleBoxIds
    /\ IdleStore
    /\ IdleWorkers
    /\ IdleLoop
    /\ IdleCache
    /\ IdleCompare
    /\ IdleValidate
    /\ IdleMeta
    /\ IdleStartup
    /\ IdleConsumers
    /\ IdleComparePairs
    /\ IdlePopJob
    /\ IdleReuse
    /\ IdleLimits
    /\ pg_pc = "files"
    /\ pg_files \in UNION { [1..n -> BundlePaths] : n \in 0..MaxBundleFiles }
    /\ pg_written = <<>>

SpecPlayground == InitPlayground /\ [][NextPlayground]_vars

(* process_judge_job about to compute the limits of a testcase, for any *)
(* base limits, flags and descriptor, in either build                   *)
InitLimits ==
    /\ InitJudge
    /\ IdleBoxIds
    /\ IdleStore
    /\ IdleWorkers
    /\ IdleLoop
    /\ IdleCache
    /\ IdleCompare
    /\ IdleValidate
    /\ IdleMeta
    /\ IdleStartup
    /\ IdleConsumers
    /\ IdleComparePairs
    /\ IdlePopJob
    /\ IdleReuse
    /\ IdlePlayground
    /\ lim_pc = "limits"
    /\ lim_build \in {"debug", "release"}
    /\ lim_job \in { Some([time_limit |-> t, ignore_time_limit_bonus |-> it,
                           memory_limit |-> m, ignore_memory_limit_bonus |-> im]) :
                       t \in TimeBases, it \in BOOLEAN,
                       m \in MemoryBases, im \in BOOLEAN }
    /\ lim_config \in { Some([time_limit |-> tp, memory_limit |-> mp]) :
                          tp \in LimitPairs, mp \in LimitPairs }
    /\ lim_out = None

SpecLimits == InitLimits /\ [][NextLimits]_vars

(* one worker that has run any number of executions, some of which      *)
(* returned early, and now runs up to MaxReuseRuns more                 *)
InitReuse ==
    /\ InitJudge
    /\ IdleBoxIds
    /\ IdleStore
    /\ IdleWorkers
    /\ IdleLoop
    /\ IdleCache
    /\ IdleCompare
    /\ IdleValidate
    /\ IdleMeta
    /\ IdleStartup
    /\ IdleConsumers
    /\ IdleComparePairs
    /\ IdlePopJob
    /\ IdlePlayground
    /\ IdleLimits
    /\ bx_pc = "idle"
    /\ bx_worker \in 0..(MAX_WORKERS - 1)
    /\ bx_counter \in CounterStarts \cup {U32(0, 999)}
    /\ bx_id = None
    /\ bx_boxes \in SUBSET LeftBehind(bx_worker, bx_counter)
    /\ bx_reclaimed = {}
    /\ bx_runs = 0

SpecReuse == InitReuse /\ [][NextReuse]_vars

(* pop_job called on an empty queue, with Redis reachable or not; the    *)
(* task of the worker is scheduled as long as it has a step to take      *)
InitPopJob ==
    /\ InitJudge
    /\ IdleBoxIds
    /\ IdleStore
    /\ IdleWorkers
    /\ IdleLoop
    /\ IdleCache
    /\ IdleCompare
    /\ IdleValidate
    /\ IdleMeta
    /\ IdleStartup
    /\ IdleConsumers
    /\ IdleComparePairs
    /\ IdlePlayground
    /\ IdleLimits
    /\ IdleReuse
    /\ pj_pc = "blpop"
    /\ pj_up \in BOOLEAN
    /\ pj_conn = pj_up
    /\ pj_queue = <<>>
    /\ pj_pushed = <<>>
    /\ pj_ret = None
    /\ pj_failures = 0
    /\ pj_discarded = 0
    /\ pj_outages = 0

SpecPopJob == InitPopJob /\ [][NextPopJob]_vars /\ WF_vars(PopJobStep)

(* compare_output called with any two short outputs *)
InitComparePairs ==
    /\ InitJudge
    /\ IdleBoxIds
    /\ IdleStore
    /\ IdleWorkers
    /\ IdleLoop
    /\ IdleCache
    /\ IdleCompare
    /\ IdleValidate
    /\ IdleMeta
    /\ IdleStartup
    /\ IdleConsumers
    /\ IdlePlayground
    /\ IdleLimits
    /\ IdleReuse
    /\ IdlePopJob
    /\ cp_actual \in PairStrings
    /\ cp_expected \in PairStrings
    /\ cp_out = None

SpecComparePairs == InitComparePairs /\ [][NextComparePairs]_vars

(* two workers waiting on an empty judge:queue *)
InitConsumers ==
    /\ InitJudge
    /\ IdleBoxIds
    /\ IdleStore
    /\ IdleWorkers
    /\ IdleLoop
    /\ IdleCache
    /\ IdleCompare
    /\ IdleValidate
    /\ IdleMeta
    /\ IdleStartup
    /\ IdlePlayground
    /\ IdleLimits
    /\ IdleReuse
    /\ IdlePopJob
    /\ IdleComparePairs
    /\ mq_queue = <<>>
    /\ mq_pushed = 0
    /\ mq_worker = [w \in Consumers |-> [st |-> "blpop", entry |-> None]]
    /\ mq_delivered = [e \in QueueEntryIds |-> {}]
    /\ mq_processed = [e \in QueueEntryIds |-> 0]
    /\ mq_stored = [e \in QueueEntryIds |-> 0]
    /\ mq_dropped = {}

SpecConsumers == InitConsumers /\ [][NextConsumers]_vars

(* a worker process started on a host with or without working cgroups *)
InitStartup ==
    /\ InitJudge
    /\ IdleBoxIds
    /\ IdleStore
    /\ IdleWorkers
    /\ IdleLoop
    /\ IdleCache
    /\ IdleCompare
    /\ IdleValidate
    /\ IdleMeta
    /\ IdleLate
    /\ main_pc = "start"
    /\ USE_CGROUPS = None
    /\ host_cgroups \in BOOLEAN
    /\ probe_count = 0
    /\ dequeued = 0
    /\ executed = 0
    /\ cgroup_bails = 0

SpecStartup == InitStartup /\ [][NextStartup]_vars

(* one run whose meta file is any of MetaFiles *)
InitMeta ==
    /\ InitJudge
    /\ IdleBoxIds
    /\ IdleStore
    /\ IdleWorkers
    /\ IdleLoop
    /\ IdleCache
    /\ IdleCompare
    /\ IdleValidate
    /\ IdleStartup
    /\ IdleLate
    /\ meta_lines \in MetaFiles
    /\ meta_memory_mb \in MetaMemoryLimits
    /\ meta_out = None

SpecMeta == InitMeta /\ [][NextMeta]_vars

(* process_validate_job called with a job of up to MaxInputs inputs *)
InitValidate ==
    /\ InitJudge
    /\ IdleBoxIds
    /\ IdleStore
    /\ IdleWorkers
    /\ IdleLoop
    /\ IdleCache
    /\ IdleCompare
    /\ IdleMeta
    /\ IdleStartup
    /\ IdleLate
    /\ validate_pc = "get_validator"
    /\ validate_job \in { Some(j) : j \in ValidateJobs }
    /\ validation_results = <<>>
    /\ all_valid = TRUE
    /\ validate_ret = None

SpecValidate == InitValidate /\ [][NextValidate]_vars

(* the same loop while Redis is reachable and the host keeps running:    *)
(* processing a job ends (every sandboxed run has a time limit), a store *)
(* returns, get_redis_connection connects, and a BLPOP that is retried   *)
(* on a non-empty list eventually succeeds                               *)
SpecLoopFair ==
    /\ SpecLoop
    /\ WF_vars(ProcessJob)
    /\ WF_vars(StoreOutcome)
    /\ WF_vars(Reconnected)
    /\ SF_vars(BlpopOk)

----------------------------------------------------------------------------
(* Properties of the judge pipeline *)

JobDone == pc = "pop" /\ IsSome(stored)
StoredResult == Unwrap(stored)

(* entries in input order, and skipped with empty resource fields after  *)
(* the first entry that is not accepted                                  *)
EntriesComplete(r) ==
    LET trs == r.testcase_results IN
    /\ Len(trs) = NumTestcases
    /\ \A i \in 1..Len(trs) : trs[i].testcase_id = TheJob.testcases[i]
    /\ \A i, j \in 1..Len(trs) :
         (i < j /\ trs[i].verdict # "accepted") =>
            /\ trs[j].verdict = "skipped"
            /\ trs[j].execution_time = None
            /\ trs[j].memory_used = None

(* C1, as claimed: the stored result of EVERY judge job with N testcases, *)
(* whatever the outcome of compilation, downloads and runs, has exactly N *)
(* entries, entry i carrying the id of testcase i, and every entry after  *)
(* the first non-accepted one is skipped with null time and memory.       *)
C1_AsClaimed ==
    (JobDone /\ TheJob.kind = "judge") => EntriesComplete(StoredResult)

(* C1, amended: the stored result of a judge job that went through the    *)
(* testcase loop without a processing error (it carries no error_message) *)
(* has exactly N entries in input order, skipped with null time and       *)
(* memory after the first non-accepted one; a result stored for a compile *)
(* error, a comparator failure or a processing error has no entries.      *)
C1_EntriesOfLoopResults ==
    (JobDone /\ TheJob.kind = "judge") =>
        IF StoredResult.error_message = None
        THEN EntriesComplete(StoredResult)
        ELSE StoredResult.testcase_results = <<>>

(* C1 witness: a three-testcase job stored with an accepted entry, then a *)
(* wrong answer, then a skipped entry.                                    *)
C1_Witness ==
    /\ JobDone
    /\ TheJob.kind = "judge"
    /\ Len(StoredResult.testcase_results) = 3
    /\ StoredResult.testcase_results[1].verdict = "accepted"
    /\ StoredResult.testcase_results[2].verdict = "wrong_answer"
    /\ StoredResult.testcase_results[3].verdict = "skipped"

(* the verdict of the first entry that is not accepted, else accepted *)
FirstNonAccepted(trs) ==
    IF \E i \in 1..Len(trs) : trs[i].verdict # "accepted"
    THEN LET first == CHOOSE i \in 1..Len(trs) :
                        /\ trs[i].verdict # "accepted"
                        /\ \A k \in 1..(i - 1) : trs[k].verdict = "accepted"
         IN  trs[first].verdict
    ELSE "accepted"

(* C2: the overall verdict of a job whose testcases were judged (the job  *)
(* reached the aggregation after the loop) is the verdict of the first    *)
(* testcase, in input order, that is not accepted, and accepted when all  *)
(* of them are, a job with zero testcases included.                       *)
C2_OverallIsFirstNonAccepted ==
    (/\ pc = "ok"
     /\ TheJob.kind \in {"judge", "anigma"}
     /\ Unwrap(result).error_message = None) =>
        Unwrap(result).verdict = FirstNonAccepted(Unwrap(result).testcase_results)

(* C2 witness: a result whose second testcase is the first one not        *)
(* accepted, a time-out, which is the overall verdict.                    *)
C2_Witness ==
    /\ pc = "ok"
    /\ TheJob.kind = "judge"
    /\ Unwrap(result).error_message = None
    /\ Len(Unwrap(result).testcase_results) >= 2
    /\ Unwrap(result).testcase_results[1].verdict = "accepted"
    /\ Unwrap(result).testcase_results[2].verdict = "time_limit_exceeded"
    /\ Unwrap(result).verdict = "time_limit_exceeded"

(* execution_time is non-null iff the verdict is accepted, and likewise *)
(* memory_used                                                         *)
MetricsIff(r) ==
    /\ IsSome(r.execution_time) <=> r.verdict = "accepted"
    /\ IsSome(r.memory_used) <=> r.verdict = "accepted"

(* C3: in every result produced for a judge, Anigma Task 2 or Anigma      *)
(* Task 1 job, compile-error and system-error results included, and in    *)
(* every result the main loop stores for a judge job, execution_time is   *)
(* non-null iff the verdict is accepted, and likewise memory_used.        *)
C3_MetricsIffAccepted ==
    /\ pc = "ok" => MetricsIff(Unwrap(result))
    /\ (JobDone /\ TheJob.kind = "judge") => MetricsIff(StoredResult)

(* C3 witness: an accepted result with both metrics, the maxima over two  *)
(* testcases that took different times.                                   *)
C3_Witness ==
    /\ JobDone
    /\ StoredResult.verdict = "accepted"
    /\ Len(StoredResult.testcase_results) = 2
    /\ StoredResult.testcase_results[1].execution_time = Some(20)
    /\ StoredResult.testcase_results[2].execution_time = Some(10)
    /\ StoredResult.execution_time = Some(20)
    /\ IsSome(StoredResult.memory_used)

(* C4: testcases are fetched and executed strictly in input order, one at *)
(* a time, and once a testcase has a non-accepted verdict no later        *)
(* testcase is fetched or executed.                                       *)
C4_EarlyTermination ==
    /\ \A k \in 1..Len(downloads) : downloads[k] = k
    /\ \A k \in 1..Len(executions) : executions[k] = k
    /\ Len(executions) <= Len(downloads)
    /\ Len(downloads) <= Len(executions) + 1
    /\ Len(testcase_results) <= Len(executions)
    /\ Len(executions) <= Len(testcase_results) + 1
    /\ \A i \in 1..Len(testcase_results) :
         testcase_results[i].verdict # "accepted" =>
            /\ Len(downloads) <= i
            /\ Len(executions) <= i

(* C4 witness: a three-testcase job finished after its first testcase got *)
(* a runtime error, with one fetch and one execution.                     *)
C4_Witness ==
    /\ JobDone
    /\ NumTestcases = 3
    /\ Len(testcase_results) = 1
    /\ testcase_results[1].verdict = "runtime_error"
    /\ downloads = <<1>>
    /\ executions = <<1>>

(* the table of the claim *)
C5_Table(c) ==
    CASE c = 0 -> "accepted"
      [] c = 1 -> "wrong_answer"
      [] c = 2 -> "presentation_error"
      [] c = 3 -> "fail"
      [] c = 4 -> "wrong_answer"
      [] c = 8 -> "wrong_answer"
      [] c < 0 \/ c > 127 -> "system_error"
      [] OTHER -> "wrong_answer"

(* C5, as claimed: for a special_judge testcase whose user program exits  *)
(* with code 0 and whose comparator, run through the executer, exits with *)
(* code c, the testcase verdict is the table entry of c: 0 accepted,      *)
(* 1 wrong_answer, 2 presentation_error, 3 fail, 4 and 8 wrong_answer,    *)
(* other codes in 0..127 wrong_answer, c < 0 or c > 127 system_error.     *)
C5_AsClaimed ==
    \A k \in 1..Len(checker_runs) :
        testcase_results[checker_runs[k][1]].verdict = C5_Table(checker_runs[k][2])

----------------------------------------------------------------------------
(* Properties of the main loop *)

(* the SETEX commands among the commands of a store *)
SetExOf(ops) == SelectSeq(ops, LAMBDA o : o.cmd = "SETEX")

(* an iteration that called the store *)
CalledStore(it) == it.ret # None

(* C11: a store attempts the key write at most twice: a second SETEX is   *)
(* issued exactly when the first failed, and there is never a third; when *)
(* both fail the store returns an error, nothing is written under the     *)
(* key, the worker keeps neither the result nor the job and the entry is  *)
(* not put back on the queue: the loop has gone on.                       *)
C11_KeyWriteAtMostTwice ==
    \A it \in last_iteration :
        CalledStore(it) =>
            LET sets == SetExOf(it.ops)
            IN  /\ Len(sets) \in 1..2
                /\ (Len(sets) = 2) <=> ~sets[1].ok
                /\ (\A i \in 1..Len(sets) : ~sets[i].ok) =>
                      /\ it.ret = Some("Err")
                      /\ key_writes[it.entry.n] = 0
                      /\ current # Some(it.entry)
                      /\ pending # it.result
                      /\ \A i \in 1..Len(queue) : queue[i].n # it.entry.n

(* C11 witness: both SETEX of the store of entry 1 failed, and the worker *)
(* has taken entry 2 from the queue.                                      *)
C11_Witness ==
    /\ \E it \in last_iteration :
         /\ it.entry.n = 1
         /\ Len(it.ops) = 2
         /\ ~it.ops[1].ok /\ ~it.ops[2].ok
         /\ it.ret = Some("Err")
    /\ phase[2] = "dequeued"

(* the job-level failures: an entry that does not parse, a language that  *)
(* is not registered, a special judge job without a comparator, a         *)
(* testcase that cannot be fetched                                        *)
JobLevelFailure(it) ==
    LET j == it.entry.payload
    IN  \/ j.kind = "malformed"
        \/ /\ j.kind = "judge"
           /\ \/ GetLanguageConfig(j.language) = None
              \/ j.problem_type = "special_judge" /\ j.checker_path = None
              \/ \E r \in it.result :
                    r.error_message = Some("Failed to download testcase input")

(* every Redis command of the iteration succeeded *)
RedisAnswered(it) == \A i \in 1..Len(it.ops) : it.ops[i].ok

(* the result of the iteration was written under its key and published *)
StoredAndPublished(it) ==
    /\ IsSome(it.result)
    /\ \E i \in 1..Len(it.ops) :
         it.ops[i].cmd = "SETEX" /\ it.ops[i].ok
           /\ it.ops[i].payload = Unwrap(it.result)
    /\ \E i \in 1..Len(it.ops) :
         it.ops[i].cmd = "PUBLISH" /\ it.ops[i].ok
           /\ it.ops[i].payload = Unwrap(it.result)

(* C12, as claimed: every entry taken from the queue whose processing     *)
(* fails at job level (malformed payload, unsupported language, missing   *)
(* comparator, storage fetch failure) leads, Redis answering, to a stored *)
(* and published result whose verdict is system_error or compile_error    *)
(* and whose error_message is set.                                        *)
C12_AsClaimed ==
    \A it \in last_iteration :
        (JobLevelFailure(it) /\ RedisAnswered(it)) =>
            /\ StoredAndPublished(it)
            /\ Unwrap(it.result).verdict \in {"system_error", "compile_error"}
            /\ IsSome(Unwrap(it.result).error_message)

(* entry n is on the queue and parses *)
QueuedWellFormed(n) ==
    \E i \in 1..Len(queue) :
        queue[i].n = n /\ IsSome(ParseWorkerJob(queue[i].payload))

(* entry n has been taken from the queue *)
Dequeued(n) == phase[n] \in {"dequeued", "processed", "stored", "panicked"}

(* C13: no job outcome halts the loop. Once processing has returned, with *)
(* Ok or with Err, the worker reaches the blocking dequeue again whether  *)
(* or not the result could be stored; and every well-formed entry on the  *)
(* queue is eventually dequeued by a worker that is running, while Redis  *)
(* is reachable.                                                          *)
C13_LoopResumes ==
    /\ (loop_pc = "store") ~> (loop_pc = "blpop")
    /\ \A n \in 1..MaxJobs :
         QueuedWellFormed(n) ~> (Dequeued(n) \/ loop_pc = "dead")

(* C13 witness: the store of entry 1 returned an error, entry 2 was       *)
(* pushed after that and the worker has taken it and processed it.        *)
C13_Witness ==
    /\ phase[1] = "stored"
    /\ key_writes[1] = 0
    /\ phase[2] = "processed"
    /\ loop_pc = "store"

(* entry n has left the queue *)
Taken(n) == phase[n] \notin {"absent", "queued"}

(* the loop is through with entry n: its store attempt has completed, or  *)
(* it did not parse and was logged                                        *)
Completed(n) == phase[n] \in {"stored", "dropped"}

(* C14: a worker never has two jobs in progress. Entries leave the queue  *)
(* in the order they were pushed, and entry n has left it only if the     *)
(* loop is through with every entry before it: the dequeue, processing    *)
(* and store of different jobs do not interleave. At most one entry is    *)
(* between its dequeue and the end of its store, and it is the current    *)
(* one.                                                                   *)
C14_OneJobAtATime ==
    /\ \A n \in 1..MaxJobs :
         Taken(n) => \A m \in 1..(n - 1) : Completed(m)
    /\ \A n \in 1..MaxJobs :
         phase[n] \in {"dequeued", "processed"} =>
            \E e \in current : e.n = n

(* C14 witness: the store of entry 1 has completed and entry 2 is being   *)
(* processed.                                                             *)
C14_Witness ==
    /\ phase[1] = "stored"
    /\ phase[2] = "dequeued"
    /\ loop_pc = "process"

(* C15: for every well-formed judge job whose processing returned, with a *)
(* result (accepted, compile error, ...) or with an error, and whose      *)
(* store found Redis answering, exactly one SETEX wrote the job's result  *)
(* key, with the result of that job: never none and never two. No key is  *)
(* written before its job's store and none is ever written twice.         *)
C15_ExactlyOneResult ==
    /\ \A it \in last_iteration :
         (it.entry.payload.kind = "judge" /\ RedisAnswered(it)) =>
            /\ SetExDone(it.ops) = 1
            /\ key_writes[it.entry.n] = 1
            /\ StoredAndPublished(it)
            /\ Unwrap(it.result).submission_id = it.entry.payload.submission_id
    /\ \A n \in 1..MaxJobs :
         /\ key_writes[n] <= 1
         /\ phase[n] # "stored" => key_writes[n] = 0

(* C15 witness: processing of judge job 2 returned an error, and its      *)
(* system_error result is the one value written under its key.            *)
C15_Witness ==
    \E it \in last_iteration :
        /\ it.entry.n = 2
        /\ it.entry.payload.kind = "judge"
        /\ RedisAnswered(it)
        /\ Unwrap(it.result).verdict = "system_error"
        /\ Unwrap(it.result).error_message =
              Some("Failed to download testcase input")
        /\ key_writes[2] = 1

(* C17, as claimed: a panic raised while processing a job is caught by   *)
(* the orchestrator and converted into a system_error result for that    *)
(* job, which is stored, and the worker continues with the next job.     *)
C17_AsClaimed ==
    \A n \in 1..MaxJobs :
        phase[n] = "panicked" =>
            /\ loop_pc # "dead"
            /\ \E r \in pending :
                  r.submission_id = n /\ r.verdict = "system_error"

----------------------------------------------------------------------------
(* Properties of the judge pipeline: the language registry *)

(* C16, as claimed: a judge job whose language key is not in the language *)
(* registry yields a published result with verdict compile_error and an   *)
(* "Unsupported language" message, and no compile or run is performed.    *)
C16_AsClaimed ==
    (JobDone /\ TheJob.kind = "judge"
       /\ GetLanguageConfig(TheJob.language) = None) =>
        /\ StoredResult.verdict = "compile_error"
        /\ StoredResult.error_message = Some("Unsupported language")
        /\ executions = <<>>
        /\ downloads = <<>>

----------------------------------------------------------------------------
(* Properties of the cache of trusted binaries *)

BothReturned == \A p \in CacheProcs : call[p].st = "returned"

SameSource == \A p, q \in CacheProcs : call[p].source = call[q].source

(* a call that failed before it reached the compiler: create_dir_all or   *)
(* the write of the source file returned an error                         *)
IoFailure(p) ==
    call[p].st = "returned" /\ call[p].ret = Some(CallFailed)
        /\ ~call[p].ran_compiler

(* C18, as claimed: for a given problem id, two sequential get_or_compile *)
(* calls with identical source content (the cache not already holding the *)
(* binary of that source, the file system not failing) return the same    *)
(* binary path and invoke the compiler exactly once in total; and a call  *)
(* compiles if and only if it found the binary missing or the cached      *)
(* source different from the given source.                                *)
C18_AsClaimed ==
    (/\ BothReturned
     /\ SameSource
     /\ \A p \in CacheProcs : ~IoFailure(p)
     /\ \E p \in CacheProcs : call[p].need_compile) =>
        /\ \A p \in CacheProcs :
             \E r \in call[p].ret : r.tag = "Ok" /\ r.path = BinaryPath
        /\ compiler_runs = 1
        /\ \A p \in CacheProcs : call[p].ran_compiler <=> call[p].need_compile

(* C19, as claimed: when two workers call get_or_compile concurrently for *)
(* the same problem id with identical source content (one the compiler    *)
(* accepts) and no lock, under every interleaving of their existence      *)
(* checks, source writes and compiler runs, each call that returns a path *)
(* returns a completely built binary compiled from that source.           *)
C19_AsClaimed ==
    (SameSource /\ \A p \in CacheProcs : Compiles(call[p].source)) =>
        \A p \in CacheProcs :
            \A r \in call[p].ret :
                r.tag = "Ok" =>
                    r.binary = Some(Binary(call[p].source, TRUE))

----------------------------------------------------------------------------
(* Properties of compare_output *)

(* C20: for every string s, compare_output(s, s) is true,                 *)
(* compare_output(s, s followed by a newline) is true, and                *)
(* compare_output(s followed by two spaces and a newline, s followed by a *)
(* newline) is true.                                                      *)
C20_CompareOutputLaws ==
    \A o \in cmp_out : o.same /\ o.newline /\ o.spaces

(* C20 witness: the three comparisons were made for a string with an      *)
(* inner blank line and a carriage return at its end.                     *)
C20_Witness ==
    /\ cmp_s = <<"a", "\n", "\r">>
    /\ cmp_out = Some([same |-> TRUE, newline |-> TRUE, spaces |-> TRUE])

----------------------------------------------------------------------------
(* Properties of the Anigma pipelines *)

Task1Done == JobDone /\ TheJob.kind = "anigma_task1"

(* C21: the outcome matrix of Anigma Task 1 over the run statuses of A    *)
(* and B on the same input. A and B both exit 0 with differing outputs:   *)
(* accepted, score 30; both exit 0 with equal outputs: wrong_answer,      *)
(* score 0; A not exit 0 and B exit 0: accepted, score 30; B not exit 0,  *)
(* whatever A did: system_error, score 0. In every stored result of a     *)
(* Task 1 job the score is 30 exactly when the verdict is accepted, and 0 *)
(* otherwise.                                                             *)
C21_Task1Matrix ==
    Task1Done =>
        LET r == StoredResult
        IN  /\ r.score = (IF r.verdict = "accepted" THEN 30 ELSE 0)
            /\ \A a \in run_a : \A b \in run_b :
                  LET a0 == a.status = Exited(0)
                      b0 == b.status = Exited(0)
                  IN  /\ (a0 /\ b0 /\ a.stdout # b.stdout) =>
                            r.verdict = "accepted"
                      /\ (a0 /\ b0 /\ a.stdout = b.stdout) =>
                            r.verdict = "wrong_answer"
                      /\ (~a0 /\ b0) => r.verdict = "accepted"
                      /\ ~b0 => r.verdict = "system_error"

(* C21 witness: A was killed by a signal, B exited 0, and the stored      *)
(* result is accepted with score 30.                                      *)
C21_Witness ==
    /\ Task1Done
    /\ \E a \in run_a : a.status = Signaled(11)
    /\ \E b \in run_b : b.status = Exited(0)
    /\ StoredResult.verdict = "accepted"
    /\ StoredResult.score = 30

(* process_anigma_job returned Ok and its result was stored *)
AnigmaReturned == JobDone /\ TheJob.kind = "anigma" /\ IsSome(result)

(* every testcase was run and its stdout compares equal to the expected   *)
(* output                                                                 *)
AllCompareEqual ==
    /\ Len(compared) = NumTestcases
    /\ \A i \in 1..Len(compared) : compared[i].equal

(* every testcase was run, exited with status 0 and compares equal *)
AllPass ==
    /\ AllCompareEqual
    /\ \A i \in 1..Len(compared) : compared[i].status = Exited(0)

(* C22 as the specification words it: in a Task 2 job that was built, if  *)
(* every testcase's stdout normalises equal to its expected output the    *)
(* overall verdict is accepted and the score is max_score, and every      *)
(* other result scores 0. A run that prints the expected output and then  *)
(* exits non-zero, is killed or exceeds a limit is not accepted.          *)
C22_AsClaimed ==
    (AnigmaReturned /\ StoredResult.verdict # "compile_error") =>
        /\ AllCompareEqual =>
              /\ StoredResult.verdict = "accepted"
              /\ StoredResult.score = TheJob.max_score
        /\ ~AllCompareEqual => StoredResult.score = 0

(* C22: in a Task 2 job that returns a result, when the build succeeded   *)
(* the overall verdict is accepted exactly when every testcase run exits  *)
(* with status 0 and its stdout compares equal to the expected output     *)
(* (normalised for text, byte for byte otherwise); the score is max_score *)
(* for an accepted result and 0 for every other result.                   *)
C22_ScoreOfAllPass ==
    AnigmaReturned =>
        LET r == StoredResult
        IN  /\ r.verdict # "compile_error" =>
                  (AllPass <=> r.verdict = "accepted")
            /\ r.score = (IF r.verdict = "accepted"
                          THEN TheJob.max_score ELSE 0)

(* C22 witness: a job of two or more testcases, all passing, stored as    *)
(* accepted with the full score                                           *)
C22_Witness ==
    /\ AnigmaReturned
    /\ NumTestcases >= 2
    /\ AllPass
    /\ StoredResult.verdict = "accepted"
    /\ StoredResult.score = TheJob.max_score
    /\ TheJob.max_score > 0

(* C23 as the specification words it: in a Task 2 result edit_distance is *)
(* null exactly when the reference path of the job is empty, whatever the *)
(* verdict. The two compile_error returns carry no edit distance for any  *)
(* reference path, and a reference with no source text gives none either. *)
C23_AsClaimed ==
    AnigmaReturned =>
        (StoredResult.edit_distance = None
            <=> TheJob.reference_code_path = "")

----------------------------------------------------------------------------
(* Properties of the validation job *)

ValidateReturned == validate_pc = "done" /\ IsSome(validate_ret)
ValidateOutput == Unwrap(validate_ret).value

(* N entries carrying the ids of the N inputs in input order *)
EntriesInInputOrder(r) ==
    LET inputs == Unwrap(validate_job).testcase_inputs
    IN  /\ Len(r.testcase_results) = Len(inputs)
        /\ \A i \in 1..Len(inputs) :
              r.testcase_results[i].testcase_id = inputs[i]

SuccessIffAllValid(r) ==
    r.success <=> \A i \in 1..Len(r.testcase_results) :
                     r.testcase_results[i].valid

----------------------------------------------------------------------------
(* Properties of the meta parser and of the status conversion *)

Parsed == meta_out # None
ParsedMeta == Unwrap(meta_out).meta
ReturnedStatus == Unwrap(meta_out).status

(* the same lines in every order *)
Reordered ==
    { [i \in 1..Len(meta_lines) |-> meta_lines[f[i]]] :
        f \in Permutations(1..Len(meta_lines)) }

(* the value of the status line, empty when there is none, and the exit   *)
(* code the exitcode line gives, 0 when there is none                     *)
StatusValue ==
    IF \E i \in 1..Len(meta_lines) : meta_lines[i].key = "status"
    THEN meta_lines[CHOOSE i \in 1..Len(meta_lines) :
                        meta_lines[i].key = "status"].value
    ELSE ""

ExitCodeValue ==
    IF \E i \in 1..Len(meta_lines) :
          meta_lines[i].key = "exitcode" /\ meta_lines[i].parses
    THEN meta_lines[CHOOSE i \in 1..Len(meta_lines) :
                        meta_lines[i].key = "exitcode"].value
    ELSE 0

(* the signal numbers of the exitsig lines *)
ExitSigs ==
    { meta_lines[i].value : i \in { k \in 1..Len(meta_lines) :
          meta_lines[k].key = "exitsig" /\ meta_lines[k].parses } }

(* the status the words of C25 give for a status value and an exit code,  *)
(* as the variant of IsolateStatus that converts to it                    *)
StatusKeyGives(tag) ==
    /\ StatusValue = "TO" => tag = "TimeOut"
    /\ StatusValue = "XX" => tag = "InternalError"
    /\ StatusValue = "RE" => tag = "RuntimeError"
    /\ (StatusValue = "" /\ ExitCodeValue = 0) => tag = "Ok"
    /\ (StatusValue = "" /\ ExitCodeValue # 0) => tag = "RuntimeError"

(* C25 as the specification words it: the status key alone decides, for   *)
(* every set of other keys and every order of the lines. An exitsig line  *)
(* next to status TO, XX, RE or no status makes the result a signal.      *)
C25_AsClaimed ==
    Parsed => \A f \in Reordered : StatusKeyGives(ParseMeta(f).status.tag)

(* C25: in a meta file without a numeric exitsig line the status key      *)
(* decides the status whatever other keys are present and whatever the    *)
(* order of the lines: TO gives the time-out status, XX the internal      *)
(* error, RE the runtime error, no status with exit code 0 the normal     *)
(* exit and no status with a non-zero exit code the runtime error.        *)
C25_StatusKeyDecides ==
    (Parsed /\ ExitSigs = {}) =>
        /\ StatusKeyGives(ParsedMeta.status.tag)
        /\ \A f \in Reordered : ParseMeta(f) = ParsedMeta

(* C25 witness: status TO read last, after a non-zero exit code and a     *)
(* memory line, parsed as a time-out                                      *)
C25_Witness ==
    /\ Parsed
    /\ Len(meta_lines) = 3
    /\ meta_lines[1] = MetaLine("exitcode", 1)
    /\ meta_lines[2] = MetaLine("cg-mem", 1024)
    /\ meta_lines[3] = MetaLine("status", "TO")
    /\ ParsedMeta.status.tag = "TimeOut"
    /\ ReturnedStatus = StatusTag("TimeLimitExceeded")

(* C26: a meta file with an exitsig line of signal number sig parses to   *)
(* the signal status carrying sig, with or without a status SG line and   *)
(* whatever the order of the lines, and is returned as Signaled(sig) when *)
(* the memory is within the limit.                                        *)
C26_ExitsigGivesSignal ==
    Parsed =>
        \A sig \in ExitSigs :
            /\ ParsedMeta.status = IsolateSignal(sig)
            /\ \A f \in Reordered : ParseMeta(f).status = IsolateSignal(sig)
            /\ ParsedMeta.memory_kb <= meta_memory_mb * 1024
                  => ReturnedStatus = Signaled(sig)

(* C26 witness: exitsig 11 read before status SG, the reverse of the      *)
(* order of the unit test, parsed as signal 11                            *)
C26_Witness ==
    /\ Parsed
    /\ Len(meta_lines) = 2
    /\ meta_lines[1] = MetaLine("exitsig", 11)
    /\ meta_lines[2] = MetaLine("status", "SG")
    /\ ParsedMeta.status = IsolateSignal(11)
    /\ ReturnedStatus = Signaled(11)

(* C27: the status returned is MemoryLimitExceeded if and only if the     *)
(* measured memory_kb exceeds memory_mb * 1024, whatever status the meta  *)
(* file parsed to.                                                        *)
C27_MemoryLimitIff ==
    Parsed =>
        (ReturnedStatus = StatusTag("MemoryLimitExceeded")
            <=> ParsedMeta.memory_kb > meta_memory_mb * 1024)

(* C27 witness: a time-out whose memory is one KB over the limit is       *)
(* returned as MemoryLimitExceeded                                        *)
C27_Witness ==
    /\ Parsed
    /\ ParsedMeta.status.tag = "TimeOut"
    /\ ParsedMeta.memory_kb = meta_memory_mb * 1024 + 1
    /\ ReturnedStatus = StatusTag("MemoryLimitExceeded")

----------------------------------------------------------------------------
(* Properties of the standard judge: verdicts and the compile step *)

(* the verdict the words of C28 give to a status other than Exited(0) *)
VerdictOfStatus(status) ==
    CASE status.tag \in {"Exited", "Signaled", "RuntimeError"} -> "runtime_error"
      [] status.tag = "TimeLimitExceeded" -> "time_limit_exceeded"
      [] status.tag = "MemoryLimitExceeded" -> "memory_limit_exceeded"
      [] status.tag = "SystemError" -> "system_error"

(* C28: in the standard judge a run whose status is not Exited(0) gets    *)
(* the verdict of its status alone, runtime_error for a non-zero exit, a  *)
(* signal or a runtime error, time_limit_exceeded, memory_limit_exceeded  *)
(* or system_error, whatever it printed and whatever the problem type,    *)
(* and no comparator is run for it.                                       *)
C28_VerdictOfStatusAlone ==
    [][ (pc = "tc_verdict" /\ Unwrap(tc.run_result).status # Exited(0)) =>
            /\ pc' # "err"
            /\ Len(testcase_results') = Len(testcase_results) + 1
            /\ testcase_results'[Len(testcase_results')].verdict =
                  VerdictOfStatus(Unwrap(tc.run_result).status)
            /\ checker_runs' = checker_runs
            /\ \A c \in {1, 2, 255} :
                  StatusVerdict(Exited(c)) = "runtime_error" ]_vars

(* C28 witness: a special judge job whose first run was killed by a       *)
(* signal: runtime_error is recorded and the comparator never ran         *)
C28_Witness ==
    /\ pc = "finalise"
    /\ IsSome(job) /\ TheJob.kind = "judge"
    /\ IsSome(checker_binary)
    /\ Len(testcase_results) = 1
    /\ testcase_results[1].verdict = "runtime_error"
    /\ checker_runs = <<>>

(* C29: a failed compilation ends process_judge_job at once with a result *)
(* of verdict compile_error, no testcase entries and the compiler message *)
(* as error_message, before any testcase is downloaded or run, and that   *)
(* result is what the store step is handed next; for a language without a *)
(* compile command the compile step does nothing and cannot fail, and the *)
(* job goes on to its testcases.                                          *)
C29_CompileStep ==
    [][ /\ (pc = "compile" /\ LangConfig.compile_command = None) =>
              /\ pc' = "checker"
              /\ result' = None /\ error' = None
        /\ (pc = "compile" /\ pc' = "ok") =>
              /\ result' = Some(EarlyResult("compile_error", "compiler message"))
              /\ downloads' = <<>> /\ executions' = <<>>
        /\ (pc = "ok" /\ TheJob.kind = "judge"
               /\ Unwrap(result).verdict = "compile_error") =>
              /\ pc' = "pop"
              /\ stored' \in {result, None}
              /\ downloads' = <<>> /\ executions' = <<>> ]_vars

(* C29 witness: a job of two or more testcases in a compiled language     *)
(* stored as compile_error with the compiler message, nothing downloaded  *)
(* or run                                                                 *)
C29_Witness ==
    /\ JobDone
    /\ TheJob.kind = "judge"
    /\ NumTestcases >= 2
    /\ StoredResult.verdict = "compile_error"
    /\ StoredResult.error_message = Some("compiler message")
    /\ StoredResult.testcase_results = <<>>
    /\ downloads = <<>>
    /\ executions = <<>>

----------------------------------------------------------------------------
(* Properties of the startup check *)

(* C30: a worker whose cgroup probe failed has exited without taking any  *)
(* job; the check is made before the first dequeue, so a worker in its    *)
(* loop holds a cached positive answer; box 99 is probed at most once in  *)
(* the life of the process, and every execute_sandboxed call is answered  *)
(* from the cache, whatever has become of the host since.                 *)
C30_ProbeOnceBeforeDequeue ==
    /\ probe_count <= 1
    /\ USE_CGROUPS = Some(FALSE) => (main_pc = "exited" /\ dequeued = 0)
    /\ (main_pc \in {"loop", "job"} \/ dequeued > 0) =>
          (USE_CGROUPS = Some(TRUE) /\ probe_count = 1)
    /\ cgroup_bails = 0

(* C30 witness: a worker that has taken its second job and run twice on   *)
(* a host whose cgroups have stopped working since the one probe          *)
C30_Witness ==
    /\ main_pc = "job"
    /\ dequeued = 2
    /\ executed = 2
    /\ ~host_cgroups
    /\ probe_count = 1
    /\ USE_CGROUPS = Some(TRUE)

----------------------------------------------------------------------------
(* Properties of the lease while it is refreshed *)

(* C31: while a worker process runs and each of its refresh commands      *)
(* succeeds within the heartbeat interval, the lease key of its worker    *)
(* index has a positive time to live, from the claim until the process    *)
(* stops.                                                                 *)
C31_LeaseNeverExpires ==
    \A p \in Procs :
        Live(p) => lease[Unwrap(proc[p].worker_id)] > 0

(* C31 witness: a running worker whose key has aged one heartbeat         *)
(* interval and whose refresh is due, next to a worker whose key has just *)
(* been set to the full time to live                                      *)
C31_Witness ==
    \E p, q \in Procs :
        /\ p # q /\ Live(p) /\ Live(q)
        /\ hb_due[p] /\ ~hb_due[q]
        /\ lease[Unwrap(proc[p].worker_id)] = LeaseTicks - 1
        /\ lease[Unwrap(proc[q].worker_id)] = LeaseTicks

----------------------------------------------------------------------------
(* Properties of the playground *)

(* C32 as the specification words it: every bundle file is written at a   *)
(* location inside the temporary directory of the job, also when its path *)
(* is absolute or has a ".." component. The loop joins the path as it is  *)
(* given and writes there.                                                *)
C32_AsClaimed ==
    \A i \in 1..Len(pg_written) : IsInside(pg_written[i], TempDir)

(* the integer base * multiplier + bonus * unit, as limbs whose high    *)
(* part is not reduced                                                  *)
ExactLimit(base, pair, unit) ==
    LET lo == base.lo * pair[1] + pair[2] * unit
    IN  [hi |-> base.hi * pair[1] + (lo \div Limb), lo |-> lo % Limb]

(* C33, as claimed: the limits of a run are base * multiplier + bonus   *)
(* * 1000 ms and base * multiplier + bonus MiB as integers, for every   *)
(* 32-bit base and pair, and a limit equals its base exactly when its   *)
(* ignore-bonus flag is set or the descriptor has no pair for it.       *)
(* Violated: the u32 arithmetic wraps around (or panics under overflow  *)
(* checks) for large bases, and the pair (1, 0) leaves the base as it   *)
(* is.                                                                  *)
C33_AsClaimed ==
    lim_pc # "limits" =>
        /\ lim_pc = "run"
        /\ LET j == Unwrap(lim_job)
               c == Unwrap(lim_config)
               out == Unwrap(lim_out)
           IN  /\ (~j.ignore_time_limit_bonus /\ IsSome(c.time_limit)) =>
                     out.time_ms = ExactLimit(j.time_limit,
                                              Unwrap(c.time_limit), 1000)
               /\ (~j.ignore_memory_limit_bonus /\ IsSome(c.memory_limit)) =>
                     out.memory_mb = ExactLimit(j.memory_limit,
                                                Unwrap(c.memory_limit), 1)
               /\ (out.time_ms = j.time_limit) <=>
                     (j.ignore_time_limit_bonus \/ c.time_limit = None)
               /\ (out.memory_mb = j.memory_limit) <=>
                     (j.ignore_memory_limit_bonus \/ c.memory_limit = None)

WellFormedPushed == SelectSeq(pj_pushed, LAMBDA e : e.well_formed)

(* pop_job has returned: always Ok, with the oldest well-formed entry *)
PopJobReturnsOldestJob ==
    /\ pj_pc = "returned" <=> IsSome(pj_ret)
    /\ IsSome(pj_ret) =>
          /\ Unwrap(pj_ret).ok
          /\ WellFormedPushed # <<>>
          /\ Unwrap(pj_ret).job = Head(WellFormedPushed)

(* C35: pop_job returns only well-formed jobs and never an error; and   *)
(* if Redis stays reachable from some moment on, then after any         *)
(* transport failures, reconnects and discarded malformed entries a     *)
(* well-formed job on the queue is eventually returned.                 *)
C35_PopJobEventuallyReturns ==
    /\ []PopJobReturnsOldestJob
    /\ (<>[]pj_up) => [](WellFormedPushed # <<>> => <>(pj_pc = "returned"))

(* C35, its case: a job is returned after a transport failure with its  *)
(* reconnect and after a malformed entry was discarded                  *)
C35_Witness ==
    /\ pj_pc = "returned"
    /\ pj_failures > 0
    /\ pj_discarded > 0

----------------------------------------------------------------------------
(* Properties of compare_output on pairs *)

(* the pieces of an output between its newlines, the last one included *)
RECURSIVE Pieces(_, _)
Pieces(s, cur) ==
    IF s = <<>> THEN <<cur>>
    ELSE IF Head(s) = "\n" THEN <<cur>> \o Pieces(Tail(s), <<>>)
    ELSE Pieces(Tail(s), Append(cur, Head(s)))

(* a line without the whitespace at its right end *)
RightTrimmed(line) ==
    LET solid == { i \in 1..Len(line) : line[i] \notin Whitespace }
    IN  IF solid = {} THEN <<>>
        ELSE SubSeq(line, 1, CHOOSE i \in solid : \A j \in solid : j <= i)

(* a sequence of lines without the empty lines at its end *)
WithoutTrailingEmpty(ls) ==
    LET full == { i \in 1..Len(ls) : ls[i] # <<>> }
    IN  IF full = {} THEN <<>>
        ELSE SubSeq(ls, 1, CHOOSE i \in full : \A j \in full : j <= i)

(* the lines of an output, right-trimmed, trailing empty lines dropped *)
TrimmedLines(s) ==
    LET pieces == Pieces(s, <<>>)
    IN  WithoutTrailingEmpty([i \in 1..Len(pieces) |-> RightTrimmed(pieces[i])])

(* the characters of an output that are not whitespace *)
Solid(s) == SelectSeq(s, LAMBDA ch : ch \notin Whitespace)

(* a is b with a space put in front of a first line that starts solid *)
LeadingSpaceAdded(a, b) ==
    /\ b # <<>>
    /\ b[1] \notin Whitespace
    /\ a = <<" ">> \o b

(* a is b with one more newline after a newline that stands between    *)
(* two solid characters                                                *)
InteriorBlankLineAdded(a, b) ==
    \E i \in 2..(Len(b) - 1) :
        /\ b[i] = "\n"
        /\ b[i - 1] \notin Whitespace
        /\ b[i + 1] \notin Whitespace
        /\ a = SubSeq(b, 1, i) \o <<"\n">> \o SubSeq(b, i + 1, Len(b))

(* C36: compare_output(a, b) is true if and only if a and b have the   *)
(* same lines after right-trimming every line and dropping trailing    *)
(* empty lines; it is symmetric; and outputs that differ in a          *)
(* non-whitespace character, by leading whitespace or by an interior   *)
(* blank line compare unequal.                                         *)
C36_CompareOutputIff ==
    \A o \in cp_out :
        /\ o.equal <=> (TrimmedLines(cp_actual) = TrimmedLines(cp_expected))
        /\ o.exchanged = o.equal
        /\ Solid(cp_actual) # Solid(cp_expected) => ~o.equal
        /\ LeadingSpaceAdded(cp_actual, cp_expected) => ~o.equal
        /\ InteriorBlankLineAdded(cp_actual, cp_expected) => ~o.equal

(* C36, its case: an output with an interior blank line was compared   *)
(* with the same output without it                                     *)
C36_Witness ==
    /\ cp_actual = <<"a", "\n", "\n", "a">>
    /\ cp_expected = <<"a", "\n", "a">>
    /\ cp_out = Some([equal |-> FALSE, exchanged |-> FALSE])

----------------------------------------------------------------------------
(* Properties of the cache over calls made one after the other *)

(* C37, as claimed: whenever get_or_compile returns a binary path for    *)
(* given source content, the binary at that path was built from exactly  *)
(* that content, over any sequence of calls for the same problem id, a   *)
(* call with changed source whose compilation failed followed by a call  *)
(* with the same changed source included.                                *)
(* Violated: the second of those calls returns the path of the binary    *)
(* built from the source before the change.                              *)
C37_AsClaimed ==
    \A p \in CacheProcs :
        call[p].st = "returned" =>
            \A r \in call[p].ret :
                r.tag = "Ok" =>
                    \E binary \in r.binary : binary.from = call[p].source

----------------------------------------------------------------------------
(* Properties of the exit code of sandboxed runs *)

----------------------------------------------------------------------------
(* Properties of several workers on one queue *)

(* the entries on the list *)
Queued == { mq_queue[i] : i \in 1..Len(mq_queue) }

(* C39: with several workers on the same queue, every entry is          *)
(* delivered to at most one worker and processed at most once; an entry *)
(* that was delivered is not on the queue again; and the job of a       *)
(* worker that stopped between dequeue and store has no result.         *)
C39_AtMostOnce ==
    \A e \in QueueEntryIds :
        /\ Cardinality(mq_delivered[e]) <= 1
        /\ mq_processed[e] <= 1
        /\ mq_stored[e] <= 1
        /\ mq_delivered[e] # {} => e \notin Queued
        /\ e \in mq_dropped => mq_stored[e] = 0

(* C39 witness: a worker stopped with entry 1 in hand, the other worker *)
(* has since stored the result of entry 2 and waits on the empty queue, *)
(* and entry 1 has no result                                            *)
C39_Witness ==
    /\ mq_dropped = {1}
    /\ mq_stored[2] = 1
    /\ mq_stored[1] = 0
    /\ mq_queue = <<>>
    /\ mq_pushed >= 2
    /\ \E w \in Consumers : mq_worker[w].st = "blpop"

====
